---- MODULE Spec2Model ----
(***************************************************************************)
(* Fixed-point codec and control stages of the current-share golden model  *)
(* (adj_current_share.py, analog_current_share.py, droop.py).              *)
(*                                                                         *)
(* A Python float is kept as a dyadic rational [m, e] = m * 2^e in lowest  *)
(* terms (m odd or zero), which is exactly what a binary64 holds as long   *)
(* as |m| < 2^53; every product and sum of the model stays far below that, *)
(* so float arithmetic is exact.  The one float effect that is not exact,  *)
(* overflow to infinity above 2^1024, is modelled explicitly.  The droop   *)
(* filter divides by its window n; the model takes n from the powers of    *)
(* two, for which the division is exact as well.                           *)
(*                                                                         *)
(* A hex string is a sequence of one-character strings.                    *)
(***************************************************************************)
EXTENDS Integers, Sequences, FiniteSets, TLC

\* ------------------------------------------------------------------------
\* Bounds of the model
\* ------------------------------------------------------------------------
MaxIntBits == 3      \* generic formats have int_bits in 0..MaxIntBits
MaxFracBits == 2     \* generic formats have frac_bits in 0..MaxFracBits
MaxMant == 20        \* input values have mantissa in -MaxMant..MaxMant
MaxExp == 2          \* input values have exponent in -MaxExp-1..MaxExp

\* binary64: the largest finite value is below 2^FloatMaxExp
FloatMaxExp == 1024

\* ------------------------------------------------------------------------
\* Python numbers
\* ------------------------------------------------------------------------
Pow2(k) == 2^k

\* 2^k - 1 and -(2^k), written so that no intermediate value leaves the
\* 32-bit range of the checker's integers for k up to 31
Pow2m1(k) == IF k = 0 THEN 0 ELSE 2 * (Pow2(k - 1) - 1) + 1

NegPow2(k) == IF k = 0 THEN -1 ELSE 2 * (0 - Pow2(k - 1))

Abs(x) == IF x < 0 THEN 0 - x ELSE x

Min(a, b) == IF a < b THEN a ELSE b

Max(a, b) == IF a > b THEN a ELSE b

RECURSIVE BitLen(_)
\* int.bit_length() of a non-negative integer
BitLen(n) == IF n = 0 THEN 0 ELSE 1 + BitLen(n \div 2)

RECURSIVE Norm(_)
\* the float m * 2^e in lowest terms
Norm(v) ==
    IF v.m = 0 THEN [m |-> 0, e |-> 0]
    ELSE IF v.m % 2 = 0 THEN Norm([m |-> v.m \div 2, e |-> v.e + 1])
    ELSE v

Flt(m, e) == Norm([m |-> m, e |-> e])

FZero == Flt(0, 0)

\* |a| < |b| for non-zero floats: compare the position of the leading bit first
MagLess(a, b) ==
    LET la == BitLen(Abs(a.m)) + a.e
        lb == BitLen(Abs(b.m)) + b.e
        lo == Min(a.e, b.e)
    IN  IF la # lb THEN la < lb
        ELSE Abs(a.m) * Pow2(a.e - lo) < Abs(b.m) * Pow2(b.e - lo)

\* a < b on floats
FLess(a, b) ==
    IF a.m = 0 THEN b.m > 0
    ELSE IF b.m = 0 THEN a.m < 0
    ELSE IF a.m < 0 /\ b.m > 0 THEN TRUE
    ELSE IF a.m > 0 /\ b.m < 0 THEN FALSE
    ELSE IF a.m > 0 THEN MagLess(a, b)
    ELSE MagLess(b, a)

FLeq(a, b) == ~FLess(b, a)

\* -a, a + b, a - b and a * b on floats: exact, as every operand of the
\* model has far fewer than 53 significant bits
FNeg(a) == [m |-> 0 - a.m, e |-> a.e]

FAdd(a, b) ==
    IF a.m = 0 THEN b
    ELSE IF b.m = 0 THEN a
    ELSE LET lo == Min(a.e, b.e)
         IN  Flt(a.m * Pow2(a.e - lo) + b.m * Pow2(b.e - lo), lo)

FSub(a, b) == FAdd(a, FNeg(b))

FMul(a, b) == Flt(a.m * b.m, a.e + b.e)

RECURSIVE BitAnd(_, _)
\* Python's a & b on unbounded two's-complement integers
BitAnd(a, b) ==
    IF a = 0 \/ b = 0 THEN 0
    ELSE IF a = -1 THEN b
    ELSE IF b = -1 THEN a
    ELSE (a % 2) * (b % 2) + 2 * BitAnd(a \div 2, b \div 2)

\* value * (1 << frac_bits) is +-inf: the float product overflows
ScaleOverflows(value, frac_bits) ==
    /\ value.m # 0
    /\ BitLen(Abs(value.m)) + value.e + frac_bits > FloatMaxExp

\* value * (1 << frac_bits) as a float (finite case)
Scale(value, frac_bits) == [m |-> value.m, e |-> value.e + frac_bits]

\* An integer of unbounded size, kept within -2^cap .. 2^cap - 1: every use
\* saturates it to bounds inside that range, so the result is the same.
Capped(x, cap) ==
    IF x.m = 0 THEN 0
    ELSE IF BitLen(Abs(x.m)) + x.e > cap
         THEN (IF x.m < 0 THEN NegPow2(cap) ELSE Pow2m1(cap))
    ELSE x.m * Pow2(x.e)

\* math.floor(x) for a finite float x
MathFloor(x, cap) ==
    IF x.e >= 0 THEN Capped(x, cap)
    ELSE IF 0 - x.e > 30 THEN (IF x.m < 0 THEN -1 ELSE 0)
    ELSE x.m \div Pow2(0 - x.e)

\* round(x) for a finite float x: Python rounds half to even
PyRound(x, cap) ==
    IF x.e >= 0 THEN Capped(x, cap)
    ELSE IF 0 - x.e > 30 THEN 0
    ELSE LET d == Pow2(0 - x.e)
             q == x.m \div d
             r == x.m % d
         IN  IF 2 * r < d THEN q
             ELSE IF 2 * r > d THEN q + 1
             ELSE IF q % 2 = 0 THEN q ELSE q + 1

\* ------------------------------------------------------------------------
\* Hex strings
\* ------------------------------------------------------------------------
HexUpper == <<"0", "1", "2", "3", "4", "5", "6", "7",
              "8", "9", "A", "B", "C", "D", "E", "F">>

HexLower == <<"0", "1", "2", "3", "4", "5", "6", "7",
              "8", "9", "a", "b", "c", "d", "e", "f">>

IsHexChar(c) == \E i \in 1..16 : HexUpper[i] = c \/ HexLower[i] = c

DigitVal(c) == (CHOOSE i \in 1..16 : HexUpper[i] = c \/ HexLower[i] = c) - 1

\* hex_str is base-16 digits and nothing else
IsHex(hex_str) ==
    /\ Len(hex_str) > 0
    /\ \A i \in 1..Len(hex_str) : IsHexChar(hex_str[i])

RECURSIVE Strip(_)
\* int() ignores leading and trailing whitespace
Strip(s) ==
    IF Len(s) > 0 /\ s[1] = " " THEN Strip(Tail(s))
    ELSE IF Len(s) > 0 /\ s[Len(s)] = " " THEN Strip(SubSeq(s, 1, Len(s) - 1))
    ELSE s

\* int() takes one leading sign
Unsigned(s) == IF Len(s) > 0 /\ s[1] \in {"+", "-"} THEN Tail(s) ELSE s

\* int(.., 16) takes a 0x prefix, and one underscore after it
Unprefixed(s) ==
    IF Len(s) >= 2 /\ s[1] = "0" /\ s[2] \in {"x", "X"}
    THEN IF Len(s) >= 3 /\ s[3] = "_" THEN SubSeq(s, 4, Len(s))
         ELSE SubSeq(s, 3, Len(s))
    ELSE s

\* the digits of the literal, single underscores between them
IntBody(hex_str) == Unprefixed(Unsigned(Strip(hex_str)))

\* int(hex_str, 16) succeeds (it raises ValueError otherwise)
IntAccepts(hex_str) ==
    LET b == IntBody(hex_str)
    IN  /\ Len(b) > 0
        /\ IsHexChar(b[1])
        /\ IsHexChar(b[Len(b)])
        /\ \A i \in 1..Len(b) : IsHexChar(b[i]) \/ b[i] = "_"
        /\ \A i \in 1..(Len(b) - 1) : ~(b[i] = "_" /\ b[i + 1] = "_")

RECURSIVE HexDigitsToInt(_)
\* the value of a run of digits, underscores skipped
HexDigitsToInt(b) ==
    IF Len(b) = 0 THEN 0
    ELSE IF b[Len(b)] = "_" THEN HexDigitsToInt(SubSeq(b, 1, Len(b) - 1))
    ELSE 16 * HexDigitsToInt(SubSeq(b, 1, Len(b) - 1)) + DigitVal(b[Len(b)])

\* int(hex_str, 16)
HexToInt(hex_str) ==
    IF IsHex(hex_str) THEN HexDigitsToInt(hex_str)
    ELSE LET t == Strip(hex_str)
             n == HexDigitsToInt(IntBody(hex_str))
         IN  IF Len(t) > 0 /\ t[1] = "-" THEN 0 - n ELSE n

RECURSIVE HexDigitsOf(_)
HexDigitsOf(n) ==
    IF n < 16 THEN <<HexUpper[n + 1]>>
    ELSE Append(HexDigitsOf(n \div 16), HexUpper[(n % 16) + 1])

RECURSIVE PadZero(_, _)
PadZero(s, width) ==
    IF Len(s) >= width THEN s ELSE PadZero(<<"0">> \o s, width)

\* f"{n:0{hex_length}X}" for n >= 0
FormatHex(n, hex_length) == PadZero(HexDigitsOf(n), hex_length)

\* the result of a call that raised OverflowError (math.floor, int or round
\* of an infinite float): as a string result and as a float result
OverflowError == <<"OverflowError">>

FloatError == [m |-> 0, e |-> FloatMaxExp]

\* ------------------------------------------------------------------------
\* adj_current_share.py: the codec
\* ------------------------------------------------------------------------
\* faulty variant of hex_to_unsigned_fixed that does not mask to the width
hex_to_unsigned_fixed_nomask(hex_str, int_bits, frac_bits) ==
    Flt(HexToInt(hex_str), 0 - frac_bits)

hex_to_unsigned_fixed(hex_str, int_bits, frac_bits) ==
    LET total_bits == int_bits + frac_bits
        max_value == Pow2(total_bits) - 1
        num == BitAnd(HexToInt(hex_str), max_value)
    IN  Flt(num, 0 - frac_bits)

UnsignedSaturated(scaled, total_bits) ==
    LET max_value == Pow2(total_bits) - 1
    IN  Max(Min(scaled, max_value), 0)

float_to_unsigned_fixed_hex(value, int_bits, frac_bits) ==
    LET total_bits == int_bits + frac_bits
        hex_length == (total_bits + 3) \div 4
    IN  IF ScaleOverflows(value, frac_bits) THEN OverflowError
        ELSE FormatHex(UnsignedSaturated(
                 MathFloor(Scale(value, frac_bits), total_bits), total_bits),
                 hex_length)

float_to_unsigned_fixed(value, int_bits, frac_bits) ==
    LET total_bits == int_bits + frac_bits
    IN  IF ScaleOverflows(value, frac_bits) THEN FloatError
        ELSE Flt(UnsignedSaturated(
                MathFloor(Scale(value, frac_bits), total_bits), total_bits),
                0 - frac_bits)

\* faulty variant of hex_to_signed_fixed that ignores the sign bit
hex_to_signed_fixed_nosign(hex_str, int_bits, frac_bits) ==
    LET total_bits == int_bits + frac_bits
        mask == Pow2m1(total_bits)
    IN  Flt(BitAnd(HexToInt(hex_str), mask), 0 - frac_bits)

hex_to_signed_fixed(hex_str, int_bits, frac_bits) ==
    LET total_bits == int_bits + frac_bits
        mask == Pow2m1(total_bits)
        num == BitAnd(HexToInt(hex_str), mask)
        adj == IF BitAnd(num, Pow2(total_bits - 1)) # 0
               THEN num + NegPow2(total_bits) ELSE num
    IN  Flt(adj, 0 - frac_bits)

\* faulty variant of SignedSaturated that does not saturate
SignedSaturated_wrap(scaled, total_bits) == scaled

SignedSaturated(scaled, total_bits) ==
    LET max_val == Pow2m1(total_bits - 1)
        min_val == NegPow2(total_bits - 1)
    IN  Max(Min(scaled, max_val), min_val)

\* format(saturated & ((1 << total_bits) - 1), '0{hex_length}X'), digit by
\* digit from the two's-complement image: the masked value of a 32-bit
\* format does not fit the checker's integers
MaskedHex(saturated, total_bits, hex_length) ==
    IF total_bits <= 31
    THEN FormatHex(BitAnd(saturated, Pow2m1(total_bits)), hex_length)
    ELSE [i \in 1..hex_length |->
            LET place == hex_length - i
                digit == (saturated \div Pow2(4 * place)) % 16
                bits == total_bits - 4 * place
            IN  HexUpper[(IF bits < 4 THEN digit % Pow2(bits) ELSE digit) + 1]]

\* (the floor is kept within the 32-bit range of the widest format, 28.4)
float_to_signed_fixed_hex(value, int_bits, frac_bits) ==
    LET total_bits == int_bits + frac_bits
        hex_length == (total_bits + 3) \div 4
    IN  IF ScaleOverflows(value, frac_bits) THEN OverflowError
        ELSE LET saturated == SignedSaturated(
                     MathFloor(Scale(value, frac_bits), 31),
                     total_bits)
             IN  MaskedHex(saturated, total_bits, hex_length)

float_to_signed_fixed(value, int_bits, frac_bits) ==
    LET total_bits == int_bits + frac_bits
    IN  IF ScaleOverflows(value, frac_bits) THEN FloatError
        ELSE Flt(SignedSaturated(
                MathFloor(Scale(value, frac_bits), 31), total_bits),
                0 - frac_bits)

\* ------------------------------------------------------------------------
\* analog_current_share.py: the rounding encoder
\* ------------------------------------------------------------------------
float_to_unsigned_fixed_hex_round(value, int_bits, frac_bits) ==
    LET total_bits == int_bits + frac_bits
        hex_length == (total_bits + 3) \div 4
    IN  IF ScaleOverflows(value, frac_bits) THEN OverflowError
        ELSE FormatHex(UnsignedSaturated(
                 PyRound(Scale(value, frac_bits), total_bits), total_bits),
                 hex_length)

\* ------------------------------------------------------------------------
\* State
\* ------------------------------------------------------------------------
VARIABLES
    c_value,      \* codec: the float handed to an encoder
    c_int_bits,   \* codec: int_bits of the format
    c_frac_bits,  \* codec: frac_bits of the format
    c_hex,        \* codec: the hex string handed to a decoder / returned by an encoder
    c_enc,        \* codec: the encoder that ran ("none" before)
    c_dec,        \* codec: the decoder that ran ("none" before)
    c_result,     \* codec: the float returned by a decoder or a quantizer
    th_pos,       \* NContinuousProcessor.th_pos
    th_neg,       \* NContinuousProcessor.th_neg
    th_num_pos,   \* NContinuousProcessor.th_num_pos
    th_num_neg,   \* NContinuousProcessor.th_num_neg
    current_pos,  \* NContinuousProcessor.current_pos
    current_neg,  \* NContinuousProcessor.current_neg
    data,         \* NContinuousProcessor.data
    state,        \* NContinuousProcessor.state (TRUE: pos, FALSE: neg)
    state_out,    \* NContinuousProcessor.state_out
    n_ret,        \* the tuple returned by the last process_data call
    n_sample,     \* the hex string handed to the last process_data call
    n_latch,      \* the branch of the latch rule the last call took
    n_fresh,      \* k when all k calls since construction were above th_pos, else -1
    n_negrun,     \* k when the last k calls were below th_neg, starting with
                  \* both counters at zero, else 0
    n_args,       \* the hex strings handed to NContinuousProcessor.__init__
    n_exc,        \* the exception the last process_data call raised and its
                  \* argument (<<"none", NoHex>> when it returned)
    pi_self,      \* PIProcessor: the fields of the object
    pi_error,     \* the hex string handed to the last pi_process call
    pi_i,         \* the local i (integral increment) of the last call
    pi_ret,       \* the tuple returned by the last pi_process call
    pi_calls,     \* number of pi_process calls made
    cor_args,     \* correct_algorithm: the arguments of the call
    cor_after_offset,  \* the local pi_result_after_offset of the call
    cor_ret,      \* the tuple correct_algorithm returned (<<>> before)
    d_config,     \* droop main: config, base_params, clp_pos and clp_neg
    d_data,       \* the hex_data of the last process_droop call
    d_raw,        \* the droop_result (droop_algorithm's float) of the last call
    d_ret,        \* the tuple the last process_droop call returned
    d_prev,       \* d_data, d_raw and d_ret of the call before the last
    d_calls,      \* number of process_droop calls made
    a_args,       \* analog_current_share_algorithm: the arguments of the call
    a_ret,        \* the tuple analog_current_share_algorithm returned (<<>> before)
    r_config,     \* Rev0_0: the CurrentShareAdjConfig of the core
    cnt_pos,      \* CurrentShareAdjCore.cnt_pos
    cnt_neg,      \* CurrentShareAdjCore.cnt_neg
    last_output,  \* CurrentShareAdjCore.last_output
    r_error,      \* the local error of the last CurrentShareAdjCore.process call
    r_ret,        \* the tuple the last process call returned (<<>> before)
    r_run,        \* lengths of the current uninterrupted runs of positive and
                  \* of negative exceedances, and the number of calls
    adj_params    \* adj main: the switches and correction parameters of params

codec_vars == <<c_value, c_int_bits, c_frac_bits, c_hex, c_enc, c_dec, c_result>>

ncp_vars == <<th_pos, th_neg, th_num_pos, th_num_neg, current_pos, current_neg,
              data, state, state_out, n_ret, n_sample, n_latch, n_fresh, n_negrun,
              n_args, n_exc>>

pi_vars == <<pi_self, pi_error, pi_i, pi_ret, pi_calls>>

\* the stages after the hysteresis detector
cor_vars == <<cor_args, cor_after_offset, cor_ret>>

droop_vars == <<d_config, d_data, d_raw, d_ret, d_prev, d_calls>>

analog_vars == <<a_args, a_ret>>

core_vars == <<r_config, cnt_pos, cnt_neg, last_output, r_error, r_ret, r_run>>

\* the programs beside adj_current_share.py's stages and droop.py
aux_vars == <<analog_vars, core_vars, adj_params>>

ctl_vars == <<pi_vars, cor_vars, droop_vars, aux_vars>>

vars == <<codec_vars, ncp_vars, ctl_vars>>

\* ------------------------------------------------------------------------
\* adj_current_share.py: PIProcessor
\* ------------------------------------------------------------------------
\* PIProcessor.__init__: cfg holds the hex strings and the clamp switch
PIProcessor(cfg) ==
    [kp1 |-> hex_to_unsigned_fixed(cfg.kp1_hex, 0, 10),
     kp1_th |-> hex_to_unsigned_fixed(cfg.kp1_th_hex, 19, 0),
     kp2 |-> hex_to_unsigned_fixed(cfg.kp2_hex, 0, 10),
     kp2_th |-> hex_to_unsigned_fixed(cfg.kp2_th_hex, 19, 0),
     ki1 |-> hex_to_unsigned_fixed(cfg.ki1_hex, 0, 10),
     ki1_th |-> hex_to_unsigned_fixed(cfg.ki1_th_hex, 19, 0),
     ki2 |-> hex_to_unsigned_fixed(cfg.ki2_hex, 0, 10),
     ki2_th |-> hex_to_unsigned_fixed(cfg.ki2_th_hex, 19, 0),
     i_clp_pos |-> hex_to_signed_fixed(cfg.i_clp_pos_hex, 20, 10),
     i_clp_neg |-> hex_to_signed_fixed(cfg.i_clp_neg_hex, 20, 10),
     clp_en |-> cfg.clp_en,
     result_p |-> FZero,
     result_i |-> FZero,
     result_i_last |-> FZero,
     result_i_before_clp |-> FZero,
     result_pi |-> FZero]

\* faulty variant of Piecewise without the deadband: the first segment's
\* formula also applies below the first threshold
Piecewise_nodeadband(error, k1, th1, k2, th2) ==
    IF FLess(FZero, error)
    THEN IF FLess(error, th2)
         THEN float_to_signed_fixed(FMul(FSub(error, th1), k1), 20, 10)
         ELSE float_to_signed_fixed(
                  FAdd(FMul(FSub(error, th2), k2), FMul(FSub(th2, th1), k1)),
                  20, 10)
    ELSE IF FLess(FNeg(th2), error)
         THEN float_to_signed_fixed(FMul(FAdd(error, th1), k1), 20, 10)
         ELSE float_to_signed_fixed(
                  FSub(FMul(FAdd(error, th2), k2), FMul(FSub(th2, th1), k1)),
                  20, 10)

\* faulty variant of Piecewise that quantizes the magnitude and then applies
\* the sign
Piecewise_odd(error, k1, th1, k2, th2) ==
    LET mag == IF error.m < 0 THEN FNeg(error) ELSE error
        q == IF FLess(mag, th1) THEN FZero
             ELSE IF FLess(mag, th2)
             THEN float_to_signed_fixed(FMul(FSub(mag, th1), k1), 20, 10)
             ELSE float_to_signed_fixed(
                      FAdd(FMul(FSub(mag, th2), k2), FMul(FSub(th2, th1), k1)),
                      20, 10)
    IN  IF error.m < 0 THEN FNeg(q) ELSE q

\* the two-segment gain with deadband that pi_process applies to the error,
\* once with the P gains and once with the I gains, re-quantized to s20.10
Piecewise(error, k1, th1, k2, th2) ==
    IF FLess(FZero, error)
    THEN IF FLess(error, th1) THEN FZero
         ELSE IF FLess(error, th2)
         THEN float_to_signed_fixed(FMul(FSub(error, th1), k1), 20, 10)
         ELSE float_to_signed_fixed(
                  FAdd(FMul(FSub(error, th2), k2), FMul(FSub(th2, th1), k1)),
                  20, 10)
    ELSE IF FLess(FNeg(th1), error) THEN FZero
         ELSE IF FLess(FNeg(th2), error)
         THEN float_to_signed_fixed(FMul(FAdd(error, th1), k1), 20, 10)
         ELSE float_to_signed_fixed(
                  FSub(FMul(FAdd(error, th2), k2), FMul(FSub(th2, th1), k1)),
                  20, 10)

\* faulty variant of PTerm that adds the stored integral
PTerm_stateful(self, error) ==
    FAdd(Piecewise(error, self.kp1, self.kp1_th, self.kp2, self.kp2_th),
         self.result_i_last)

\* self.result_p of pi_process
PTerm(self, error) ==
    Piecewise(error, self.kp1, self.kp1_th, self.kp2, self.kp2_th)

\* the local i of pi_process
ITerm(self, error) ==
    Piecewise(error, self.ki1, self.ki1_th, self.ki2, self.ki2_th)

\* faulty variant of IntegralClamp that never clamps
IntegralClamp_off(before_clp, clp_en, i_clp_pos, i_clp_neg) == before_clp

\* self.result_i of pi_process
IntegralClamp(before_clp, clp_en, i_clp_pos, i_clp_neg) ==
    IF clp_en
    THEN IF FLess(i_clp_pos, before_clp) THEN i_clp_pos
         ELSE IF FLess(before_clp, i_clp_neg) THEN i_clp_neg
         ELSE before_clp
    ELSE before_clp

\* faulty variant of PiReturn that encodes the sum as s20.10
PiReturn_sum20(result_p, result_i, result_pi) ==
    <<float_to_signed_fixed_hex(result_p, 20, 10),
      float_to_signed_fixed_hex(result_i, 20, 10),
      float_to_signed_fixed_hex(result_pi, 20, 10)>>

\* the tuple pi_process returns
PiReturn(result_p, result_i, result_pi) ==
    <<float_to_signed_fixed_hex(result_p, 20, 10),
      float_to_signed_fixed_hex(result_i, 20, 10),
      float_to_signed_fixed_hex(result_pi, 21, 10)>>

\* PIProcessor.pi_process: the object after the call, the local i and the
\* returned tuple
pi_process(self, error_hex) ==
    LET error == hex_to_signed_fixed(error_hex, 20, 6)
        p == PTerm(self, error)
        i == ITerm(self, error)
        before_clp == float_to_signed_fixed(FAdd(self.result_i_last, i), 20, 10)
        clamped == IntegralClamp(before_clp, self.clp_en,
                                 self.i_clp_pos, self.i_clp_neg)
        sum == FAdd(p, clamped)
    IN  [self |-> [self EXCEPT !.result_p = p,
                               !.result_i_before_clp = before_clp,
                               !.result_i = clamped,
                               !.result_i_last = clamped,
                               !.result_pi = sum],
         i |-> i,
         ret |-> PiReturn(p, clamped, sum)]

\* the PI configuration of the specifications that never call pi_process
PiIdleCfg ==
    [kp1_hex |-> <<"2", "0", "0">>, kp1_th_hex |-> <<"0", "0", "0", "6", "4">>,
     kp2_hex |-> <<"3", "F", "F">>, kp2_th_hex |-> <<"0", "0", "0", "C", "8">>,
     ki1_hex |-> <<"0", "0", "1">>, ki1_th_hex |-> <<"0", "0", "0", "3", "2">>,
     ki2_hex |-> <<"2", "0", "0">>, ki2_th_hex |-> <<"0", "0", "0", "9", "6">>,
     i_clp_pos_hex |-> <<"0", "0", "0", "0", "0", "4", "0", "0">>,
     i_clp_neg_hex |-> <<"3", "F", "F", "F", "F", "C", "0", "0">>,
     clp_en |-> TRUE]

\* a PIProcessor just constructed from cfg
PiConstructed(cfg) ==
    /\ pi_self = PIProcessor(cfg)
    /\ pi_error = <<>>
    /\ pi_i = FZero
    /\ pi_ret = <<>>
    /\ pi_calls = 0

PiIdle == PiConstructed(PiIdleCfg)

\* ------------------------------------------------------------------------
\* adj_current_share.py: correct_algorithm
\* ------------------------------------------------------------------------
\* faulty variant of CorrectClamp that ignores the clamp bounds
CorrectClamp_off(after_offset, clp_pos_hex, clp_neg_hex, clp_en) ==
    float_to_signed_fixed(after_offset, 7, 4)

\* pi_result_after_clp of correct_algorithm
CorrectClamp(after_offset, clp_pos_hex, clp_neg_hex, clp_en) ==
    IF clp_en
    THEN LET clp_pos == hex_to_signed_fixed(clp_pos_hex, 7, 4)
             clp_neg == hex_to_signed_fixed(clp_neg_hex, 7, 4)
         IN  IF FLess(clp_pos, after_offset) THEN clp_pos
             ELSE IF FLess(after_offset, clp_neg) THEN clp_neg
             ELSE float_to_signed_fixed(after_offset, 7, 4)
    ELSE float_to_signed_fixed(after_offset, 7, 4)

\* correct_algorithm: the returned tuple and the local pi_result_after_offset
correct_algorithm(pi_result_hex, k2_hex, offset_hex, clp_pos_hex, clp_neg_hex, clp_en) ==
    LET pi_result == hex_to_signed_fixed(pi_result_hex, 20, 10)
        k2 == hex_to_unsigned_fixed(k2_hex, 6, 6)
        offset == hex_to_signed_fixed(offset_hex, 7, 4)
        pi_result_after_k == float_to_signed_fixed(FMul(pi_result, k2), 27, 5)
        pi_result_after_offset ==
            float_to_signed_fixed(FAdd(pi_result_after_k, offset), 28, 4)
        pi_result_after_clp ==
            CorrectClamp(pi_result_after_offset, clp_pos_hex, clp_neg_hex, clp_en)
    IN  [after_offset |-> pi_result_after_offset,
         ret |-> <<float_to_signed_fixed_hex(pi_result_after_offset, 28, 4),
                   float_to_signed_fixed_hex(pi_result_after_clp, 7, 4)>>]

\* the arguments of a correct_algorithm call not yet made
CorPending(a) ==
    /\ cor_args = a
    /\ cor_after_offset = FZero
    /\ cor_ret = <<>>

\* the correction stage of the specifications that never call it
CorIdle ==
    CorPending([pi_result_hex |-> <<"0", "0", "0", "0", "0", "0", "0", "0">>,
                k2_hex |-> <<"0", "4", "0">>,
                offset_hex |-> <<"0", "0", "0">>,
                clp_pos_hex |-> <<>>,
                clp_neg_hex |-> <<>>,
                clp_en |-> FALSE])

\* ------------------------------------------------------------------------
\* droop.py
\* ------------------------------------------------------------------------
\* faulty variant of PyInt that rounds a positive fraction up
PyInt_up(x, cap) ==
    IF x.e >= 0 THEN Capped(x, cap)
    ELSE IF 0 - x.e > 30 THEN (IF x.m > 0 THEN 1 ELSE 0)
    ELSE 0 - ((0 - x.m) \div Pow2(0 - x.e))

\* int(x) for a finite float x: truncation toward zero
PyInt(x, cap) ==
    IF x.e >= 0 THEN Capped(x, cap)
    ELSE IF 0 - x.e > 30 THEN 0
    ELSE IF x.m < 0 THEN 0 - ((0 - x.m) \div Pow2(0 - x.e))
    ELSE x.m \div Pow2(0 - x.e)

\* x / n for a positive integer n that is a power of two (exact in binary64)
FDivPow2(x, n) == Flt(x.m, x.e - (BitLen(n) - 1))

droop_hex_to_unsigned_fixed(hex_str, int_bits, frac_bits) ==
    LET total_bits == int_bits + frac_bits
        max_value == Pow2(total_bits) - 1
        num == BitAnd(HexToInt(hex_str), max_value)
    IN  Flt(num, 0 - frac_bits)

droop_float_to_unsigned_fixed_hex(value, int_bits, frac_bits) ==
    LET total_bits == int_bits + frac_bits
        hex_length == (total_bits + 3) \div 4
    IN  IF ScaleOverflows(value, frac_bits) THEN OverflowError
        ELSE FormatHex(UnsignedSaturated(
                 PyInt(Scale(value, frac_bits), total_bits), total_bits),
                 hex_length)

flot_to_unsigned_fixed(value, int_bits, frac_bits) ==
    LET total_bits == int_bits + frac_bits
    IN  IF ScaleOverflows(value, frac_bits) THEN FloatError
        ELSE Flt(UnsignedSaturated(
                 PyInt(Scale(value, frac_bits), total_bits), total_bits),
                 0 - frac_bits)

\* the branch of droop_algorithm for data < th (dat is the decoded data)
DroopLow(dat, k, r1) == FMul(FMul(dat, r1), k)

\* faulty variant of DroopHigh that drops the term th * r1
DroopHigh_noth(dat, k, r1, r2, th) == FMul(FMul(FSub(dat, th), r2), k)

\* the branch of droop_algorithm for data >= th
DroopHigh(dat, k, r1, r2, th) ==
    FMul(FAdd(FMul(th, r1), FMul(FSub(dat, th), r2)), k)

droop_algorithm(hex_data, hex_k, hex_r1, hex_r2, hex_th) ==
    LET dat == droop_hex_to_unsigned_fixed(hex_data, 12, 0)
        k == droop_hex_to_unsigned_fixed(hex_k, 0, 12)
        r1 == droop_hex_to_unsigned_fixed(hex_r1, 6, 6)
        r2 == droop_hex_to_unsigned_fixed(hex_r2, 6, 6)
        th == droop_hex_to_unsigned_fixed(hex_th, 12, 0)
    IN  IF FLess(dat, th) THEN DroopLow(dat, k, r1)
        ELSE DroopHigh(dat, k, r1, r2, th)

\* faulty variant of DroopFilter that adds the whole last output
DroopFilter_sum(flot_droop_result, hex_droop_result, params) ==
    IF params.enable_filter
    THEN LET droop_out ==
                 FAdd(FDivPow2(flot_droop_result, params.n), params.last_out)
         IN  [hex |-> droop_float_to_unsigned_fixed_hex(droop_out, 18, 12),
              flot |-> flot_to_unsigned_fixed(droop_out, 18, 12),
              last_out |-> flot_to_unsigned_fixed(droop_out, 18, 12)]
    ELSE [hex |-> hex_droop_result, flot |-> flot_droop_result,
          last_out |-> params.last_out]

\* the weighted average of process_droop: hex_droop_out, flot_droop_out and
\* params['last_out'] after it
DroopFilter(flot_droop_result, hex_droop_result, params) ==
    IF params.enable_filter
    THEN LET droop_out ==
                 FAdd(FDivPow2(flot_droop_result, params.n),
                      FDivPow2(FMul(params.last_out, Flt(params.n - 1, 0)),
                               params.n))
         IN  [hex |-> droop_float_to_unsigned_fixed_hex(droop_out, 18, 12),
              flot |-> flot_to_unsigned_fixed(droop_out, 18, 12),
              last_out |-> flot_to_unsigned_fixed(droop_out, 18, 12)]
    ELSE [hex |-> hex_droop_result, flot |-> flot_droop_result,
          last_out |-> params.last_out]

FMin(a, b) == IF FLess(b, a) THEN b ELSE a

FMax(a, b) == IF FLess(a, b) THEN b ELSE a

\* faulty variant of DroopClamp that never clamps
DroopClamp_off(flot_droop_out, clp_enable, clp_pos, clp_neg) == flot_droop_out

\* final_value of process_droop
DroopClamp(flot_droop_out, clp_enable, clp_pos, clp_neg) ==
    IF clp_enable
    THEN FMax(FMax(FMin(flot_droop_out, clp_pos), clp_neg), FZero)
    ELSE flot_droop_out

\* process_droop: the returned tuple, params after the call and the local
\* droop_result
process_droop(hex_data, params, clp_enable, clp_pos, clp_neg) ==
    LET droop_result == droop_algorithm(hex_data, params.hex_k, params.hex_r1,
                                        params.hex_r2, params.hex_th)
        hex_droop_result == droop_float_to_unsigned_fixed_hex(droop_result, 18, 12)
        flot_droop_result == flot_to_unsigned_fixed(droop_result, 18, 12)
        f == DroopFilter(flot_droop_result, hex_droop_result, params)
        final_value == DroopClamp(f.flot, clp_enable, clp_pos, clp_neg)
        hex_droop_adj == droop_float_to_unsigned_fixed_hex(final_value, 6, 4)
    IN  [ret |-> <<hex_droop_result, f.hex, hex_droop_adj>>,
         params |-> [params EXCEPT !.last_out = f.last_out],
         droop_result |-> droop_result]

\* faulty variant of KeepLastOut that drops the filter state
KeepLastOut_lost(config, current_params) == config

\* main, after each process_droop call: the filter state is copied back
KeepLastOut(config, current_params) ==
    IF config.enable_filter
    THEN [config EXCEPT !.last_out = current_params.last_out]
    ELSE config

\* main's configuration: mode <<enable_filter, n, enable_clamp, clp_pos hex,
\* clp_neg hex>> (n and the clamp bounds are only asked for when enabled)
DroopConfig(hex_k, hex_r1, hex_r2, hex_th, mode) ==
    [hex_k |-> hex_k, hex_r1 |-> hex_r1, hex_r2 |-> hex_r2, hex_th |-> hex_th,
     enable_filter |-> mode[1],
     n |-> mode[2],
     enable_clamp |-> mode[3],
     clp_pos |-> IF mode[3] THEN droop_hex_to_unsigned_fixed(mode[4], 6, 4)
                 ELSE FZero,
     clp_neg |-> IF mode[3] THEN droop_hex_to_unsigned_fixed(mode[5], 6, 4)
                 ELSE FZero,
     last_out |-> FZero]

\* main before the first data item
DroopStarted(config) ==
    /\ d_config = config
    /\ d_data = <<>>
    /\ d_raw = FZero
    /\ d_ret = <<>>
    /\ d_prev = [hex_data |-> <<>>, raw |-> FZero, ret |-> <<>>]
    /\ d_calls = 0

\* the droop stage of the specifications that never run it
DroopIdle ==
    DroopStarted(DroopConfig(<<"8", "0", "0">>, <<"0", "4", "0">>,
                             <<"0", "4", "0">>, <<"1", "0", "0">>,
                             <<FALSE, 1, FALSE, <<>>, <<>>>>))

\* ------------------------------------------------------------------------
\* analog_current_share.py
\* ------------------------------------------------------------------------
analog_hex_to_unsigned_fixed(hex_str, int_bits, frac_bits) ==
    LET total_bits == int_bits + frac_bits
        max_value == Pow2(total_bits) - 1
        num == BitAnd(HexToInt(hex_str), max_value)
    IN  Flt(num, 0 - frac_bits)

analog_float_to_unsigned_fixed_hex(value, int_bits, frac_bits) ==
    LET total_bits == int_bits + frac_bits
        hex_length == (total_bits + 3) \div 4
    IN  IF ScaleOverflows(value, frac_bits) THEN OverflowError
        ELSE FormatHex(UnsignedSaturated(
                 PyInt(Scale(value, frac_bits), total_bits), total_bits),
                 hex_length)

\* float_to_unsigned_fixed of analog_current_share.py
analog_float_to_unsigned_fixed(value, int_bits, frac_bits) ==
    LET total_bits == int_bits + frac_bits
    IN  IF ScaleOverflows(value, frac_bits) THEN FloatError
        ELSE Flt(UnsignedSaturated(
                 PyInt(Scale(value, frac_bits), total_bits), total_bits),
                 0 - frac_bits)

\* faulty variant of PwmPeriod that counts the selector from one
PwmPeriod_from1(int_prd_pwm) == int_prd_pwm * 100

\* prd_pwm: the period the selector names
PwmPeriod(int_prd_pwm) == (int_prd_pwm + 1) * 100

\* duty_pwm = data * trim / (1 << adc_bits) * 0.8 (0xCCD as u0.12)
DutyPwm(dat, trim, adc_bits) ==
    FMul(FDivPow2(FMul(dat, trim), Pow2(adc_bits)),
         analog_hex_to_unsigned_fixed(<<"C", "C", "D">>, 0, 12))

\* faulty variant of DutyClamp that keeps the low 12 bits of the raw duty
DutyClamp_wrap(float_duty_pwm) ==
    FormatHex(PyRound(Scale(float_duty_pwm, 12), 31) % 4096, 3)

\* hex_duty_pwm_clamped: the quantized raw duty encoded as u0.12
DutyClamp(float_duty_pwm) == float_to_unsigned_fixed_hex_round(float_duty_pwm, 0, 12)

\* pwm_high = int(float_duty_pwm_clamped * prd_pwm + 0.5)
PwmHigh(float_duty_pwm_clamped, prd_pwm) ==
    PyInt(FAdd(FMul(float_duty_pwm_clamped, Flt(prd_pwm, 0)), Flt(1, -1)), 31)

analog_current_share_algorithm(hex_data, hex_trim, int_adc, int_prd_pwm) ==
    LET dat == analog_hex_to_unsigned_fixed(hex_data, 12, 0)
        trim == analog_hex_to_unsigned_fixed(hex_trim, 1, 12)
        adc_bits == int_adc
        prd_pwm == PwmPeriod(int_prd_pwm)
        duty_pwm == DutyPwm(dat, trim, adc_bits)
        hex_duty_pwm == float_to_unsigned_fixed_hex_round(duty_pwm, 13, 12)
        float_duty_pwm == analog_hex_to_unsigned_fixed(hex_duty_pwm, 13, 12)
        hex_duty_pwm_clamped == DutyClamp(float_duty_pwm)
        float_duty_pwm_clamped ==
            analog_hex_to_unsigned_fixed(hex_duty_pwm_clamped, 0, 12)
        pwm_high == PwmHigh(float_duty_pwm_clamped, prd_pwm)
        pwm_low == prd_pwm - pwm_high
    IN  <<hex_duty_pwm, hex_duty_pwm_clamped, pwm_high, pwm_low>>

\* a call of analog_current_share_algorithm about to be made
AnalogPending(a) ==
    /\ a_args = a
    /\ a_ret = <<>>

\* the PWM stage of the specifications that never call it
AnalogIdle ==
    AnalogPending([hex_data |-> <<"0", "0", "0">>,
                   hex_trim |-> <<"1", "0", "0", "0">>,
                   int_adc |-> 12, int_prd_pwm |-> 0])

\* ------------------------------------------------------------------------
\* adj_current_share_Rev0_0.py: CurrentShareAdjCore
\* ------------------------------------------------------------------------
\* test_error of a call in normal mode
None == [none |-> TRUE]

\* CurrentShareAdjConfig.__init__: the defaults
CurrentShareAdjConfig ==
    [mode |-> "n", enable_n_continuous |-> FALSE, th_pos |-> 524287,
     th_neg |-> 524288, th_num_pos |-> 5, th_num_neg |-> 5, adj_k1 |-> 40]

\* CurrentShareAdjCore._convert_params: adj_k1 of the configuration as u6.6
ConvertParams(config) ==
    FAdd(Flt(BitAnd(config.adj_k1 \div 64, 63), 0),
         Flt(BitAnd(config.adj_k1, 63), -6))

\* the input preprocessing of process: the error
CoreError(config, dat, share, test_error) ==
    IF test_error # None
    THEN Flt(PyInt(Scale(test_error, 10), 31), 0)
    ELSE FSub(Flt(BitAnd(share, 4095), 0),
              FMul(Flt(BitAnd(dat, 4095), 0), ConvertParams(config)))

\* the continuous detection of process: counters cp, cn before the call
ContinuousDetect(config, cp, cn, error) ==
    IF FLeq(Flt(config.th_pos, 0), error)
    THEN [cnt_pos |-> Min(cp + 1, 31), cnt_neg |-> cn,
          interrupt |-> Min(cp + 1, 31) >= config.th_num_pos]
    ELSE IF FLeq(error, Flt(config.th_neg, 0))
    THEN [cnt_pos |-> cp, cnt_neg |-> Min(cn + 1, 31),
          interrupt |-> Min(cn + 1, 31) >= config.th_num_neg]
    ELSE [cnt_pos |-> 0, cnt_neg |-> 0, interrupt |-> FALSE]

\* CurrentShareAdjCore.process: the fields after the call and its result
core_process(config, cp, cn, dat, share, test_error) ==
    LET error == CoreError(config, dat, share, test_error)
        det == IF config.enable_n_continuous
               THEN ContinuousDetect(config, cp, cn, error)
               ELSE [cnt_pos |-> cp, cnt_neg |-> cn,
                     interrupt |-> FLeq(Flt(config.th_pos, 0), error)
                                   \/ FLeq(error, Flt(config.th_neg, 0))]
        out == FDivPow2(error, 1024)
    IN  [cnt_pos |-> det.cnt_pos, cnt_neg |-> det.cnt_neg, last_output |-> out,
         error |-> error, ret |-> <<out, det.interrupt>>]

\* CurrentShareAdjCore.__init__ (reset): a core constructed on config
CoreConstructed(config) ==
    /\ r_config = config
    /\ cnt_pos = 0
    /\ cnt_neg = 0
    /\ last_output = FZero
    /\ r_error = FZero
    /\ r_ret = <<>>
    /\ r_run = [pos |-> 0, neg |-> 0, calls |-> 0]

\* the Rev0_0 core of the specifications that never call it
CoreIdle == CoreConstructed(CurrentShareAdjConfig)

\* adj main of the specifications that never run adj_process
AdjIdle == adj_params = [enable_count |-> FALSE, enable_pi |-> FALSE]

AuxIdle == AnalogIdle /\ CoreIdle /\ AdjIdle

\* the stages after the detector, constructed and never called
CtlIdle == PiIdle /\ CorIdle /\ DroopIdle /\ AuxIdle

\* ------------------------------------------------------------------------
\* Inputs of the codec
\* ------------------------------------------------------------------------
\* formats: all small ones, and the ones the pipelines use
Formats ==
    ({<<i, f>> : i \in 0..MaxIntBits, f \in 0..MaxFracBits} \ {<<0, 0>>})
    \cup {<<12, 0>>, <<20, 6>>, <<13, 12>>, <<0, 12>>}

\* values: small dyadic rationals, 9999, the duty 1638.5/4096, and finite
\* floats near the top of the binary64 range
Values ==
    {Flt(m, e) : m \in (0 - MaxMant)..MaxMant, e \in (0 - MaxExp - 1)..MaxExp}
    \cup {Flt(9999, 0), Flt(3277, -13), Flt(3279, -13),
          Flt(-1, 25), Flt(1, 25), Flt(-1, 1023), Flt(1, 1023)}

HexChars == {"0", "1", "7", "8", "F", "a"}

HexInputs ==
    {<<a>> : a \in HexChars}
    \cup {<<a, b>> : a \in HexChars, b \in HexChars}
    \cup {<<"8", "0", "0">>, <<"7", "F", "F">>, <<"F", "F", "F">>,
          <<"1", "8", "0", "0">>, <<"3", "F", "F", "F", "F", "F", "F">>,
          <<"2", "0", "0", "0", "0", "0", "0">>}

NoHex == <<>>

\* the codec at rest (no call made or pending)
CodecIdle ==
    /\ c_value = FZero
    /\ c_int_bits = 12
    /\ c_frac_bits = 0
    /\ c_hex = NoHex
    /\ c_enc = "idle"
    /\ c_dec = "idle"
    /\ c_result = FZero

\* the integer a whole-valued float holds
FloatToInt(v) == IF v.m = 0 THEN 0 ELSE v.m * Pow2(v.e)

\* NContinuousProcessor.__init__
NContinuousProcessorInit(th_pos_hex, th_neg_hex, th_num_pos_hex, th_num_neg_hex) ==
    /\ th_pos = hex_to_signed_fixed(th_pos_hex, 20, 0)
    /\ th_neg = hex_to_signed_fixed(th_neg_hex, 20, 0)
    /\ th_num_pos = FloatToInt(hex_to_unsigned_fixed(th_num_pos_hex, 5, 0))
    /\ th_num_neg = FloatToInt(hex_to_unsigned_fixed(th_num_neg_hex, 5, 0))
    /\ current_pos = 0
    /\ current_neg = 0
    /\ data = FZero
    /\ state = TRUE
    /\ state_out = TRUE
    /\ n_ret = <<0, 0, TRUE, NoHex>>
    /\ n_sample = NoHex
    /\ n_latch = "none"
    /\ n_fresh = 0
    /\ n_negrun = 0
    /\ n_args = <<th_pos_hex, th_neg_hex, th_num_pos_hex, th_num_neg_hex>>
    /\ n_exc = <<"none", NoHex>>

\* the detector of the codec specification: constructed, never called
NcpIdle == NContinuousProcessorInit(<<"0", "0", "0", "6", "4">>,
                                    <<"F", "F", "F", "9", "C">>,
                                    <<"0", "2">>, <<"0", "2">>)

InitCodec ==
    /\ NcpIdle
    /\ CtlIdle
    /\ \E fmt \in Formats : c_int_bits = fmt[1] /\ c_frac_bits = fmt[2]
    /\ \/ c_value \in Values /\ c_hex = NoHex
       \/ c_value = FZero /\ c_hex \in HexInputs
    /\ c_enc = "none"
    /\ c_dec = "none"
    /\ c_result = FZero

\* ------------------------------------------------------------------------
\* Actions of the codec: one call of one function
\* ------------------------------------------------------------------------
CanEncode == c_enc = "none" /\ c_dec = "none" /\ c_hex = NoHex

CallFloatToUnsignedFixedHex ==
    /\ CanEncode
    /\ c_hex' = float_to_unsigned_fixed_hex(c_value, c_int_bits, c_frac_bits)
    /\ c_enc' = "unsigned_hex"
    /\ UNCHANGED <<c_value, c_int_bits, c_frac_bits, c_dec, c_result, ncp_vars, ctl_vars>>

CallFloatToSignedFixedHex ==
    /\ CanEncode
    /\ c_hex' = float_to_signed_fixed_hex(c_value, c_int_bits, c_frac_bits)
    /\ c_enc' = "signed_hex"
    /\ UNCHANGED <<c_value, c_int_bits, c_frac_bits, c_dec, c_result, ncp_vars, ctl_vars>>

CallFloatToUnsignedFixedHexRound ==
    /\ CanEncode
    /\ c_hex' = float_to_unsigned_fixed_hex_round(c_value, c_int_bits, c_frac_bits)
    /\ c_enc' = "unsigned_hex_round"
    /\ UNCHANGED <<c_value, c_int_bits, c_frac_bits, c_dec, c_result, ncp_vars, ctl_vars>>

CallFloatToUnsignedFixed ==
    /\ CanEncode
    /\ c_result' = float_to_unsigned_fixed(c_value, c_int_bits, c_frac_bits)
    /\ c_enc' = "unsigned"
    /\ UNCHANGED <<c_value, c_int_bits, c_frac_bits, c_dec, c_hex, ncp_vars, ctl_vars>>

CallFloatToSignedFixed ==
    /\ CanEncode
    /\ c_result' = float_to_signed_fixed(c_value, c_int_bits, c_frac_bits)
    /\ c_enc' = "signed"
    /\ UNCHANGED <<c_value, c_int_bits, c_frac_bits, c_dec, c_hex, ncp_vars, ctl_vars>>

\* a decoder takes an input string, or the string an encoder returned
CanDecode ==
    /\ c_dec = "none"
    /\ c_enc \in {"none", "unsigned_hex", "signed_hex", "unsigned_hex_round"}
    /\ IsHex(c_hex)

CallHexToUnsignedFixed ==
    /\ CanDecode
    /\ c_result' = hex_to_unsigned_fixed(c_hex, c_int_bits, c_frac_bits)
    /\ c_dec' = "unsigned"
    /\ UNCHANGED <<c_value, c_int_bits, c_frac_bits, c_hex, c_enc, ncp_vars, ctl_vars>>

CallHexToSignedFixed ==
    /\ CanDecode
    /\ c_result' = hex_to_signed_fixed(c_hex, c_int_bits, c_frac_bits)
    /\ c_dec' = "signed"
    /\ UNCHANGED <<c_value, c_int_bits, c_frac_bits, c_hex, c_enc, ncp_vars, ctl_vars>>

NextCodec ==
    \/ CallFloatToUnsignedFixedHex
    \/ CallFloatToSignedFixedHex
    \/ CallFloatToUnsignedFixedHexRound
    \/ CallFloatToUnsignedFixed
    \/ CallFloatToSignedFixed
    \/ CallHexToUnsignedFixed
    \/ CallHexToSignedFixed

SpecCodec == InitCodec /\ [][NextCodec]_vars

\* ------------------------------------------------------------------------
\* Properties of the codec (checked under SpecCodec)
\* ------------------------------------------------------------------------
TotalBits == c_int_bits + c_frac_bits

MaxUnsigned == Pow2(TotalBits) - 1

MaxSigned == Pow2(TotalBits - 1) - 1

MinSigned == 0 - Pow2(TotalBits - 1)

\* c_value * 2^frac_bits is an integer
ScaledIsInteger == c_value.m = 0 \/ c_value.e + c_frac_bits >= 0

\* c_value * 2^frac_bits is an integer within lo..hi
RepresentableIn(lo, hi) ==
    /\ ScaledIsInteger
    /\ BitLen(Abs(c_value.m)) + c_value.e + c_frac_bits <= TotalBits + 1
    /\ LET n == IF c_value.m = 0 THEN 0
                ELSE c_value.m * Pow2(c_value.e + c_frac_bits)
       IN  lo <= n /\ n <= hi

\* C1: decoding the hex string an encoder produced for a value that the
\* format represents exactly returns that value, for the signed pair and
\* for the unsigned pair.
C1_RoundTrip ==
    /\ (c_enc = "signed_hex" /\ c_dec = "signed"
            /\ RepresentableIn(MinSigned, MaxSigned))
        => c_result = c_value
    /\ (c_enc = "unsigned_hex" /\ c_dec = "unsigned"
            /\ RepresentableIn(0, MaxUnsigned))
        => c_result = c_value

C1_Witness ==
    /\ c_enc = "signed_hex"
    /\ c_dec = "signed"
    /\ RepresentableIn(MinSigned, MaxSigned)
    /\ c_value.m < 0
    /\ c_value.e < 0

\* the value lies above n / 2^frac_bits, respectively below it
ValueAbove(n) == FLess(Flt(n, 0 - c_frac_bits), c_value)

ValueBelow(n) == FLess(c_value, Flt(n, 0 - c_frac_bits))

HexIs(n) == IsHex(c_hex) /\ HexToInt(c_hex) = n

\* C2: every encode function clamps to the bound: an unsigned encode of a
\* value above the range gives 2^W-1 and of a negative value gives 0; a
\* signed encode of a value above the range gives 2^(W-1)-1 and of a value
\* below it gives -2^(W-1) in two's complement; decoding the result gives
\* the maximum, respectively minimum, representable value.
C2_Saturation ==
    /\ c_enc = "unsigned_hex" =>
        /\ ValueAbove(MaxUnsigned) =>
            /\ HexIs(MaxUnsigned)
            /\ c_dec = "unsigned" => c_result = Flt(MaxUnsigned, 0 - c_frac_bits)
        /\ ValueBelow(0) =>
            /\ HexIs(0)
            /\ c_dec = "unsigned" => c_result = FZero
    /\ c_enc = "unsigned" =>
        /\ ValueAbove(MaxUnsigned) => c_result = Flt(MaxUnsigned, 0 - c_frac_bits)
        /\ ValueBelow(0) => c_result = FZero
    /\ c_enc = "signed_hex" =>
        /\ ValueAbove(MaxSigned) =>
            /\ HexIs(MaxSigned)
            /\ c_dec = "signed" => c_result = Flt(MaxSigned, 0 - c_frac_bits)
        /\ ValueBelow(MinSigned) =>
            /\ HexIs(Pow2(TotalBits) + MinSigned)
            /\ c_dec = "signed" => c_result = Flt(MinSigned, 0 - c_frac_bits)
    /\ c_enc = "signed" =>
        /\ ValueAbove(MaxSigned) => c_result = Flt(MaxSigned, 0 - c_frac_bits)
        /\ ValueBelow(MinSigned) => c_result = Flt(MinSigned, 0 - c_frac_bits)

\* C3: decode masks the parsed integer to the total width W, subtracts 2^W
\* for a signed format exactly when bit W-1 of the masked integer is set,
\* and divides by 2^frac_bits; "800" is 2048 as unsigned 12.0 and -2048 as
\* signed 12.0.
C3_Decode ==
    (c_enc = "none" /\ c_dec # "none") =>
        LET masked == HexToInt(c_hex) % Pow2(TotalBits)
            topset == (masked \div Pow2(TotalBits - 1)) % 2 = 1
            expected == IF c_dec = "signed" /\ topset
                        THEN masked - Pow2(TotalBits) ELSE masked
        IN  /\ c_result.m = 0 \/ c_result.e + c_frac_bits >= 0
            /\ expected = IF c_result.m = 0 THEN 0
                          ELSE c_result.m * Pow2(c_result.e + c_frac_bits)
            /\ (c_hex = <<"8", "0", "0">> /\ c_int_bits = 12 /\ c_frac_bits = 0)
                => c_result = (IF c_dec = "signed"
                               THEN [m |-> -1, e |-> 11] ELSE [m |-> 1, e |-> 11])

C3_Witness ==
    /\ c_enc = "none"
    /\ c_dec = "signed"
    /\ c_hex = <<"1", "8", "0", "0">>
    /\ c_int_bits = 12
    /\ c_frac_bits = 0
    /\ c_result = [m |-> -1, e |-> 11]

\* the number of hex digits of a W-bit register: the least n with 4n >= W
HexDigitsFor(w) == CHOOSE n \in 0..w : 4 * n >= w /\ 4 * (n - 1) < w

\* C4: an encode never fails: for every finite value and every format of
\* width W it returns exactly ceil(W/4) uppercase hex digits whose integer
\* value is in 0..2^W-1.
C4_EncodeWellFormed ==
    c_enc \in {"unsigned_hex", "signed_hex"} =>
        /\ c_hex # OverflowError
        /\ Len(c_hex) = HexDigitsFor(TotalBits)
        /\ \A i \in 1..Len(c_hex) : \E d \in 1..16 : c_hex[i] = HexUpper[d]
        /\ HexToInt(c_hex) \in 0..MaxUnsigned

\* C5: the rounding encoder rounds half away from zero: a non-negative
\* value whose scaled value is exactly k + 1/2 (k+1 within range) encodes
\* as k+1, for even and odd k alike.
C5_RoundHalfAway ==
    (/\ c_enc = "unsigned_hex_round"
     /\ c_value.m > 0
     /\ c_value.e + c_frac_bits = -1
     /\ (c_value.m \div 2) + 1 <= MaxUnsigned)
        => HexIs((c_value.m \div 2) + 1)

\* ------------------------------------------------------------------------
\* adj_current_share.py: NContinuousProcessor (the hysteresis detector)
\* ------------------------------------------------------------------------
MaxThNum == 2        \* trigger counts are 0..MaxThNum and 31
MaxRun == 34         \* runs are counted up to MaxRun calls

\* threshold pairs <<th_pos, th_neg>> (s20.0): <<100, -100>> and <<0, 0>>
ThPairs == {<<<<"0", "0", "0", "6", "4">>, <<"F", "F", "F", "9", "C">>>>,
            <<<<"0", "0", "0", "0", "0">>, <<"0", "0", "0", "0", "0">>>>}

\* trigger counts (u5.0)
ThNumHex == {FormatHex(n, 2) : n \in 0..MaxThNum} \cup {<<"1", "F">>}

\* samples (s20.6): 150, 200, 100+1/64, 100, 1/64, 0, -1/64, -100, -100-1/64, -150
Samples ==
    {<<"0", "0", "0", "2", "5", "8", "0">>, <<"0", "0", "0", "3", "2", "0", "0">>,
     <<"0", "0", "0", "1", "9", "0", "1">>, <<"0", "0", "0", "1", "9", "0", "0">>,
     <<"0", "0", "0", "0", "0", "0", "1">>, <<"0", "0", "0", "0", "0", "0", "0">>,
     <<"3", "F", "F", "F", "F", "F", "F">>, <<"3", "F", "F", "E", "7", "0", "0">>,
     <<"3", "F", "F", "E", "6", "F", "F">>, <<"3", "F", "F", "D", "A", "8", "0">>}

\* sample strings that are not base-16 digits: a letter past F, a negative
\* literal (-1), a prefixed literal (0x64 with a space before it)
OddSamples ==
    {<<"0", "0", "0", "2", "5", "G", "0">>, <<"-", "1">>,
     <<" ", "0", "x", "6", "4">>}

InitNcp ==
    /\ CodecIdle
    /\ CtlIdle
    /\ \E th \in ThPairs, np \in ThNumHex, nn \in ThNumHex :
           NContinuousProcessorInit(th[1], th[2], np, nn)

\* faulty variant of CounterUpdate that keeps the other side's counter when
\* the tracking state flips
CounterUpdate_keep(d) ==
    IF FLess(th_pos, d)
    THEN IF state
         THEN [pos |-> current_pos + 1, neg |-> current_neg, st |-> state]
         ELSE [pos |-> 0 + 1, neg |-> current_neg, st |-> TRUE]
    ELSE IF FLess(d, th_neg)
    THEN IF ~state
         THEN [pos |-> current_pos, neg |-> current_neg + 1, st |-> state]
         ELSE [pos |-> current_pos, neg |-> 0 + 1, st |-> FALSE]
    ELSE [pos |-> 0, neg |-> 0, st |-> state]

\* the counter update of process_data: counters and tracking state before
\* the latch rule
CounterUpdate(d) ==
    IF FLess(th_pos, d)
    THEN IF state
         THEN [pos |-> current_pos + 1, neg |-> current_neg, st |-> state]
         ELSE [pos |-> 0 + 1, neg |-> 0, st |-> TRUE]
    ELSE IF FLess(d, th_neg)
    THEN IF ~state
         THEN [pos |-> current_pos, neg |-> current_neg + 1, st |-> state]
         ELSE [pos |-> 0, neg |-> 0 + 1, st |-> FALSE]
    ELSE [pos |-> 0, neg |-> 0, st |-> state]

\* faulty variant of LatchBranch whose positive rule fires at >=
LatchBranch_posgeq(u) ==
    IF u.pos >= th_num_pos THEN "pos"
    ELSE IF u.neg >= th_num_neg THEN "neg"
    ELSE "none"

\* faulty variant of LatchBranch whose negative rule fires at >
LatchBranch_neggt(u) ==
    IF u.pos > th_num_pos THEN "pos"
    ELSE IF u.neg > th_num_neg THEN "neg"
    ELSE "none"

\* the latch rule of process_data: the branch taken for updated counters u
LatchBranch(u) ==
    IF u.pos > th_num_pos THEN "pos"
    ELSE IF u.neg >= th_num_neg THEN "neg"
    ELSE "none"

\* faulty variant of ClampCount that leaves the counter as counted
ClampCount_unclamped(b, side, count, th_num) == count

\* the counter after the latch rule: the branch that fires sets its counter
\* to th_num + 1
ClampCount(b, side, count, th_num) ==
    IF b = side THEN th_num + 1 ELSE count

ProcessDataReturns(new_data_hex) ==
    \E d \in {hex_to_signed_fixed(new_data_hex, 20, 6)} :
    \E u \in {CounterUpdate(d)} :
    \E b \in {LatchBranch(u)} :
        /\ current_pos' = ClampCount(b, "pos", u.pos, th_num_pos)
        /\ current_neg' = ClampCount(b, "neg", u.neg, th_num_neg)
        /\ state' = u.st
        /\ data' = IF b = "none" THEN data ELSE d
        /\ state_out' = IF b = "pos" THEN TRUE
                        ELSE IF b = "neg" THEN FALSE ELSE state_out
        /\ n_ret' = <<current_pos', current_neg', state_out',
                      float_to_signed_fixed_hex(data', 20, 6)>>
        /\ n_sample' = new_data_hex
        /\ n_latch' = b
        /\ n_fresh' = IF FLess(th_pos, d) /\ n_fresh >= 0 /\ n_fresh < MaxRun
                      THEN n_fresh + 1 ELSE -1
        /\ n_negrun' = IF ~FLess(d, th_neg) THEN 0
                       ELSE IF current_pos = 0 /\ current_neg = 0 THEN 1
                       ELSE IF n_negrun > 0 /\ n_negrun < MaxRun THEN n_negrun + 1
                       ELSE 0
        /\ n_exc' = <<"none", NoHex>>
        /\ UNCHANGED <<th_pos, th_neg, th_num_pos, th_num_neg, n_args>>

\* int() raises ValueError in the first statement, before any assignment
ProcessDataRaises(new_data_hex) ==
    /\ n_exc' = <<"ValueError", new_data_hex>>
    /\ UNCHANGED <<th_pos, th_neg, th_num_pos, th_num_neg, current_pos,
                   current_neg, data, state, state_out, n_ret, n_sample,
                   n_latch, n_fresh, n_negrun, n_args>>

process_data(new_data_hex) ==
    IF IsHex(new_data_hex) \/ IntAccepts(new_data_hex)
    THEN ProcessDataReturns(new_data_hex)
    ELSE ProcessDataRaises(new_data_hex)

ProcessData ==
    /\ \E h \in Samples : process_data(h)
    /\ UNCHANGED <<codec_vars, ctl_vars>>

NextNcp == ProcessData

SpecNcp == InitNcp /\ [][NextNcp]_vars

\* ------------------------------------------------------------------------
\* Properties of the hysteresis detector (checked under SpecNcp)
\* ------------------------------------------------------------------------
SampleValue(h) == hex_to_signed_fixed(h, 20, 6)

AboveThPos(h) == FLess(th_pos, SampleValue(h))

BelowThNeg(h) == FLess(SampleValue(h), th_neg)

InBand(h) == FLeq(th_neg, SampleValue(h)) /\ FLeq(SampleValue(h), th_pos)

\* C6 as stated: after any sequence of process_data calls both count_pos
\* and count_neg are in 0..31.
C6_CountersIn0To31 ==
    /\ current_pos \in 0..31
    /\ current_neg \in 0..31

\* C6 as amended: after any sequence of process_data calls both counters
\* are in 0..32: count_pos saturates at th_num_pos + 1 and count_neg at
\* th_num_neg + 1, and neither goes negative.
C6_CountersBounded ==
    /\ current_pos \in 0..(th_num_pos + 1)
    /\ current_neg \in 0..(th_num_neg + 1)
    /\ current_pos <= 32
    /\ current_neg <= 32
    /\ n_ret[1] = current_pos
    /\ n_ret[2] = current_neg

C6_Witness ==
    /\ th_num_pos = 31
    /\ current_pos = 32
    /\ n_latch = "pos"

\* C7: on a fresh detector the k-th of k consecutive samples above th_pos
\* returns count_pos = min(k, th_num_pos + 1), and the positive latch
\* (latched_sign = true, latched value = the sample) fires on it exactly
\* when k >= th_num_pos + 1.
C7_PositiveLatchTiming ==
    n_fresh >= 1 =>
        /\ n_ret[1] = Min(n_fresh, th_num_pos + 1)
        /\ n_latch = "pos" <=> n_fresh >= th_num_pos + 1
        /\ n_latch = "pos" =>
            /\ state_out = TRUE
            /\ n_ret[3] = TRUE
            /\ data = SampleValue(n_sample)
            /\ n_ret[4] = n_sample

C7_Witness ==
    /\ th_num_pos = 2
    /\ n_fresh = 3
    /\ n_latch = "pos"
    /\ n_ret[1] = 3
    /\ state_out = TRUE

\* C8: for every configuration, a process_data call with an in-band sample
\* (th_neg <= x <= th_pos) after a run of samples above th_pos returns
\* count_pos = 0 and leaves latched_sign and latched_value as they were.
C8_InBandReset ==
    [][(n_sample # NoHex /\ AboveThPos(n_sample) /\ InBand(n_sample'))
        => /\ n_ret'[1] = 0
           /\ state_out' = state_out
           /\ data' = data]_vars

\* C9: for every configuration, a sample above th_pos processed while
\* tracking the negative side returns count_pos = 1 and count_neg = 0 with
\* the tracking state positive; a sample below th_neg processed while
\* tracking the positive side returns count_pos = 0 and a count_neg that
\* started again (>= 1) with the tracking state negative.
C9_SignFlip ==
    [][/\ (~state /\ AboveThPos(n_sample'))
            => (n_ret'[1] = 1 /\ n_ret'[2] = 0 /\ state' = TRUE)
       /\ (state /\ BelowThNeg(n_sample'))
            => (n_ret'[1] = 0 /\ n_ret'[2] >= 1 /\ state' = FALSE)]_vars

\* C10: with th_num_neg = N >= 1 and both counters at zero, the k-th of k
\* consecutive samples below th_neg fires the negative latch (latched_sign
\* = false, latched value = the sample) exactly when k >= N, and returns
\* count_neg = k for k < N and N + 1 for k >= N.
C10_NegativeLatchTiming ==
    (th_num_neg >= 1 /\ n_negrun >= 1) =>
        /\ n_latch = "neg" <=> n_negrun >= th_num_neg
        /\ n_ret[2] = IF n_negrun < th_num_neg THEN n_negrun ELSE th_num_neg + 1
        /\ n_latch = "neg" =>
            /\ state_out = FALSE
            /\ n_ret[3] = FALSE
            /\ data = SampleValue(n_sample)
            /\ n_ret[4] = n_sample

C10_Witness ==
    /\ th_num_neg = 2
    /\ n_negrun = 2
    /\ n_latch = "neg"
    /\ n_ret[2] = 3
    /\ state_out = FALSE

\* ------------------------------------------------------------------------
\* PI controller: inputs, action, specification
\* ------------------------------------------------------------------------
MaxPiCalls == 4      \* pi_process is called at most MaxPiCalls times

\* gains with deadband (thresholds 100/200 for P, 50/150 for I) and gains
\* without (all thresholds 0)
PiGains ==
    {PiIdleCfg,
     [PiIdleCfg EXCEPT !.kp1_th_hex = <<"0", "0", "0", "0", "0">>,
                       !.kp2_th_hex = <<"0", "0", "0", "0", "0">>,
                       !.ki1_hex = <<"2", "0", "0">>,
                       !.ki1_th_hex = <<"0", "0", "0", "0", "0">>,
                       !.ki2_th_hex = <<"0", "0", "0", "0", "0">>]}

\* integral clamps: [-1, 1] enabled, [-4, 3 + 1/1024] enabled, and disabled
\* (main then passes 00000000 for both bounds)
PiClamps ==
    {<<<<"0", "0", "0", "0", "0", "4", "0", "0">>,
       <<"3", "F", "F", "F", "F", "C", "0", "0">>, TRUE>>,
     <<<<"0", "0", "0", "0", "0", "C", "0", "1">>,
       <<"3", "F", "F", "F", "F", "0", "0", "0">>, TRUE>>,
     <<<<"0", "0", "0", "0", "0", "0", "0", "0">>,
       <<"0", "0", "0", "0", "0", "0", "0", "0">>, FALSE>>}

PiConfigs ==
    {[g EXCEPT !.i_clp_pos_hex = c[1], !.i_clp_neg_hex = c[2], !.clp_en = c[3]] :
        g \in PiGains, c \in PiClamps}

\* positive errors in units of 1/64: 0, 30, 60, 100.5, 150 + 1/64, 300.25,
\* 2^18 and 3 * 2^17
PiErrorCodes == {0, 1920, 3840, 6432, 9601, 19216, 16777216, 25165824}

\* the s20.6 hex strings of these errors, of their negations and of -2^19
PiErrors ==
    {FormatHex(c, 7) : c \in PiErrorCodes}
    \cup {FormatHex(Pow2(26) - c, 7) : c \in PiErrorCodes \ {0}}
    \cup {FormatHex(Pow2(25), 7)}

InitPi ==
    /\ CodecIdle
    /\ NcpIdle
    /\ CorIdle
    /\ DroopIdle
    /\ AuxIdle
    /\ \E cfg \in PiConfigs : PiConstructed(cfg)

CallPiProcess ==
    /\ pi_calls < MaxPiCalls
    /\ \E h \in PiErrors :
        \E r \in {pi_process(pi_self, h)} :
            /\ pi_self' = r.self
            /\ pi_error' = h
            /\ pi_i' = r.i
            /\ pi_ret' = r.ret
            /\ pi_calls' = pi_calls + 1
    /\ UNCHANGED <<codec_vars, ncp_vars, cor_vars, droop_vars, aux_vars>>

NextPi == CallPiProcess

SpecPi == InitPi /\ [][NextPi]_vars

\* ------------------------------------------------------------------------
\* PI controller: properties
\* ------------------------------------------------------------------------
\* the error the last call decoded
PiError == hex_to_signed_fixed(pi_error, 20, 6)

FAbs(a) == IF a.m < 0 THEN FNeg(a) ELSE a

\* one least significant bit of the s20.10 format
PiLsb == Flt(1, -10)

PiCalled == pi_calls > 0

\* |e| is below the first P threshold and below the first I threshold
InDeadband(self, error_hex) ==
    LET e == hex_to_signed_fixed(error_hex, 20, 6)
    IN  FLess(FAbs(e), self.kp1_th) /\ FLess(FAbs(e), self.ki1_th)

\* C11: a call whose error lies in both deadbands yields a P term of exactly
\* zero and an I increment of exactly zero, so the pre-clamp integral of
\* that call equals the integral the previous call stored.
C11_Deadband ==
    [][(pi_calls' = pi_calls + 1 /\ InDeadband(pi_self, pi_error'))
       => /\ pi_self'.result_p = FZero
          /\ pi_ret'[1] = <<"0", "0", "0", "0", "0", "0", "0", "0">>
          /\ pi_i' = FZero
          /\ pi_self'.result_i_before_clp = pi_self.result_i_last]_vars

\* a deadband call made while the stored integral is not zero
C11_Witness ==
    /\ pi_calls >= 2
    /\ InDeadband(pi_self, pi_error)
    /\ pi_self.result_i_before_clp # FZero
    /\ PiError # FZero

PiClampOrdered(self) == self.clp_en /\ FLeq(self.i_clp_neg, self.i_clp_pos)

FWithin(x, lo, hi) == FLeq(lo, x) /\ FLeq(x, hi)

\* C12: with clamping enabled and i_clp_neg <= i_clp_pos, after every call
\* the returned integral and the stored integral_last lie within
\* [i_clp_neg, i_clp_pos].
C12_AntiWindup ==
    (PiCalled /\ PiClampOrdered(pi_self))
    => /\ FWithin(pi_self.result_i, pi_self.i_clp_neg, pi_self.i_clp_pos)
       /\ FWithin(pi_self.result_i_last, pi_self.i_clp_neg, pi_self.i_clp_pos)
       /\ FWithin(hex_to_signed_fixed(pi_ret[2], 20, 10),
                  pi_self.i_clp_neg, pi_self.i_clp_pos)

\* the pre-clamp integral was outside the bounds and the call clamped it
C12_Witness ==
    /\ PiCalled
    /\ PiClampOrdered(pi_self)
    /\ \/ /\ FLess(pi_self.i_clp_pos, pi_self.result_i_before_clp)
          /\ pi_self.result_i_last = pi_self.i_clp_pos
       \/ /\ FLess(pi_self.result_i_before_clp, pi_self.i_clp_neg)
          /\ pi_self.result_i_last = pi_self.i_clp_neg

\* -e is representable in s20.6: e is not the most negative code
NegationRepresentable(error_hex) == HexToInt(error_hex) # Pow2(25)

\* the float pi_process hands to the quantizer for a non-negative error
\* (zero in the deadband)
PiecewiseArg(error, k1, th1, k2, th2) ==
    IF FLess(error, th1) THEN FZero
    ELSE IF FLess(error, th2) THEN FMul(FSub(error, th1), k1)
    ELSE FAdd(FMul(FSub(error, th2), k2), FMul(FSub(th2, th1), k1))

\* x is a multiple of 2^-10
OnPiGrid(x) == x.m = 0 \/ x.e >= -10

\* the quantized term of -e, given the one of e >= 0 and the unquantized
\* term of e: the negation, one LSB lower when the term is off the grid
MirrorOf(pos_term, arg) ==
    IF OnPiGrid(arg) THEN FNeg(pos_term) ELSE FSub(FNeg(pos_term), PiLsb)

C14_SumExact ==
    PiCalled
    => hex_to_signed_fixed(pi_ret[3], 21, 10)
       = FAdd(hex_to_signed_fixed(pi_ret[1], 20, 10),
              hex_to_signed_fixed(pi_ret[2], 20, 10))

\* a sum outside the range of signed 20.10
C14_Witness ==
    /\ PiCalled
    /\ \/ FLeq(Flt(1, 19), hex_to_signed_fixed(pi_ret[3], 21, 10))
       \/ FLess(hex_to_signed_fixed(pi_ret[3], 21, 10), Flt(-1, 19))

\* the object as constructed from the same configuration
Fresh(self) ==
    [self EXCEPT !.result_p = FZero, !.result_i = FZero,
                 !.result_i_last = FZero, !.result_i_before_clp = FZero,
                 !.result_pi = FZero]

\* C15: the P-term hex returned for an error is the same in every reachable
\* state: it equals the one a freshly constructed object of the same
\* configuration returns for that error.
C15_PTermStateless ==
    PiCalled => pi_ret[1] = pi_process(Fresh(pi_self), pi_error).ret[1]

\* a call with a non-zero P term made on an object whose integral, clamp
\* history and previous results are not the initial ones
C15_Witness ==
    /\ pi_calls >= 3
    /\ pi_self.result_p # FZero
    /\ pi_self.result_i_last # FZero
    /\ pi_self.result_i_last # pi_i

\* ------------------------------------------------------------------------
\* PI controller under a sustained error (specification)
\* ------------------------------------------------------------------------
MaxSustain == 2      \* the error is held after MaxSustain calls
MaxHold == 9         \* held calls are counted up to MaxHold more

\* errors (s20.6) whose increments are large: 0, 2^18, 3 * 2^17, -2^18, -2^19
SustainErrors ==
    {FormatHex(c, 7) : c \in {0, 16777216, 25165824}}
    \cup {FormatHex(Pow2(26) - 16777216, 7), FormatHex(Pow2(25), 7)}

\* one pi_process call of a run that never ends: the first MaxSustain calls
\* take any error, every later call repeats the last one (calls are counted
\* up to MaxSustain + MaxHold)
CallPiSustain ==
    /\ \E h \in SustainErrors :
        \E r \in {pi_process(pi_self, h)} :
            /\ pi_calls < MaxSustain \/ h = pi_error
            /\ pi_self' = r.self
            /\ pi_error' = h
            /\ pi_i' = r.i
            /\ pi_ret' = r.ret
            /\ pi_calls' = Min(pi_calls + 1, MaxSustain + MaxHold)
    /\ UNCHANGED <<codec_vars, ncp_vars, cor_vars, droop_vars, aux_vars>>

NextPiSustain == CallPiSustain

SpecPiSustain == InitPi /\ [][NextPiSustain]_vars

\* the ends of the signed 20.10 range: 2^19 - 2^-10 and -2^19
PiIntMax == Flt(Pow2m1(29), -10)

PiIntMin == Flt(-1, 19)

\* the integral the last call returned
PiIntegralReturned == hex_to_signed_fixed(pi_ret[2], 20, 10)

\* the integral stays in the s20.10 range
PiIntegralInRange ==
    (PiCalled /\ ~pi_self.clp_en) =>
        /\ FWithin(pi_self.result_i, PiIntMin, PiIntMax)
        /\ PiIntegralReturned = pi_self.result_i

\* a call with a positive increment does not lower the integral and keeps
\* it at the maximum; symmetrically for a negative increment
PiIntegralMonotone ==
    (~pi_self.clp_en /\ pi_calls > 0) =>
        /\ FLess(FZero, pi_i') =>
              /\ FLeq(pi_self.result_i, pi_self'.result_i)
              /\ pi_self.result_i = PiIntMax => pi_self'.result_i = PiIntMax
        /\ FLess(pi_i', FZero) =>
              /\ FLeq(pi_self'.result_i, pi_self.result_i)
              /\ pi_self.result_i = PiIntMin => pi_self'.result_i = PiIntMin

\* the last MaxHold + 1 calls or more took the same error
Sustained == pi_calls = MaxSustain + MaxHold /\ ~pi_self.clp_en

\* an increment that crosses the whole range, 2^20, in MaxHold + 1 calls
CrossingStep == Flt((Pow2(20) \div (MaxHold + 1)) + 1, 0)

\* a sustained error whose increment is at least the crossing step has
\* reached the end of the range
PiIntegralReachesEnd ==
    Sustained =>
        /\ FLeq(CrossingStep, pi_i) =>
              /\ pi_self.result_i = PiIntMax
              /\ PiIntegralReturned = PiIntMax
        /\ FLeq(pi_i, FNeg(CrossingStep)) =>
              /\ pi_self.result_i = PiIntMin
              /\ PiIntegralReturned = PiIntMin

\* C27: with clamping disabled the integral stays in [-2^19, 2^19 - 2^-10];
\* under a sustained error with a positive increment it is non-decreasing
\* from call to call, reaches the format maximum and stays there, never
\* wrapping (symmetrically for a negative increment and the minimum)
C27_IntegratorSaturates ==
    /\ []PiIntegralInRange
    /\ [][PiIntegralMonotone]_vars
    /\ []PiIntegralReachesEnd

\* C27 happens: a call with a positive increment found the integral at the
\* maximum and left it there
C27_Witness ==
    /\ PiCalled
    /\ ~pi_self.clp_en
    /\ FLess(FZero, pi_i)
    /\ pi_self.result_i = PiIntMax
    /\ FLess(PiIntMax, FAdd(pi_self.result_i, pi_i))
    /\ pi_ret[2] = <<"1", "F", "F", "F", "F", "F", "F", "F">>
    /\ Sustained

\* ------------------------------------------------------------------------
\* Output correction: inputs, action, specification
\* ------------------------------------------------------------------------
\* PI sums (s20.10): 0, 1, -1, 2^-10, -2^-10, 64, -64, 100 + 2^-10, 2^18,
\* -2^19
CorPiResults ==
    {<<"0", "0", "0", "0", "0", "0", "0", "0">>,
     <<"0", "0", "0", "0", "0", "4", "0", "0">>,
     <<"3", "F", "F", "F", "F", "C", "0", "0">>,
     <<"0", "0", "0", "0", "0", "0", "0", "1">>,
     <<"3", "F", "F", "F", "F", "F", "F", "F">>,
     <<"0", "0", "0", "1", "0", "0", "0", "0">>,
     <<"3", "F", "F", "F", "0", "0", "0", "0">>,
     <<"0", "0", "0", "1", "9", "0", "0", "1">>,
     <<"1", "0", "0", "0", "0", "0", "0", "0">>,
     <<"2", "0", "0", "0", "0", "0", "0", "0">>}

\* gains k2 (u6.6): 0, 1/64, 0.5, 1, 63 + 63/64
CorGains ==
    {<<"0", "0", "0">>, <<"0", "0", "1">>, <<"0", "2", "0">>,
     <<"0", "4", "0">>, <<"F", "F", "F">>}

\* offsets (s7.4): 0, 0.5, 63.9375, -64, -0.5
CorOffsets ==
    {<<"0", "0", "0">>, <<"0", "0", "8">>, <<"3", "F", "F">>,
     <<"4", "0", "0">>, <<"7", "F", "8">>}

\* clamps <<clp_pos_hex, clp_neg_hex, clp_en>>: [-16, 16], the whole range,
\* [1, 1], the inverted pair pos = -1, neg = 1, and disabled (main then
\* passes empty strings)
CorClamps ==
    {<<<<"1", "0", "0">>, <<"7", "0", "0">>, TRUE>>,
     <<<<"3", "F", "F">>, <<"4", "0", "0">>, TRUE>>,
     <<<<"0", "1", "0">>, <<"0", "1", "0">>, TRUE>>,
     <<<<"7", "F", "0">>, <<"0", "1", "0">>, TRUE>>,
     <<<<>>, <<>>, FALSE>>}

InitCorrect ==
    /\ CodecIdle
    /\ NcpIdle
    /\ PiIdle
    /\ DroopIdle
    /\ AuxIdle
    /\ \E p \in CorPiResults, k \in CorGains, o \in CorOffsets, c \in CorClamps :
           CorPending([pi_result_hex |-> p, k2_hex |-> k, offset_hex |-> o,
                       clp_pos_hex |-> c[1], clp_neg_hex |-> c[2],
                       clp_en |-> c[3]])

CallCorrectAlgorithm ==
    /\ cor_ret = <<>>
    /\ \E r \in {correct_algorithm(cor_args.pi_result_hex, cor_args.k2_hex,
                                    cor_args.offset_hex, cor_args.clp_pos_hex,
                                    cor_args.clp_neg_hex, cor_args.clp_en)} :
           /\ cor_after_offset' = r.after_offset
           /\ cor_ret' = r.ret
    /\ UNCHANGED <<cor_args, codec_vars, ncp_vars, pi_vars, droop_vars, aux_vars>>

NextCorrect == CallCorrectAlgorithm

SpecCorrect == InitCorrect /\ [][NextCorrect]_vars

\* ------------------------------------------------------------------------
\* Output correction: properties
\* ------------------------------------------------------------------------
CorDone == cor_ret # <<>>

\* the final output of the call, decoded as signed 7.4
CorFinal == hex_to_signed_fixed(cor_ret[2], 7, 4)

CorClpPos == hex_to_signed_fixed(cor_args.clp_pos_hex, 7, 4)

CorClpNeg == hex_to_signed_fixed(cor_args.clp_neg_hex, 7, 4)

\* C16: with clamping enabled and clp_neg <= clp_pos, the final output hex
\* decodes (signed 7.4) to a value in [clp_neg, clp_pos]; it is clp_pos when
\* the offset-applied value is above clp_pos and clp_neg when it is below
\* clp_neg.
C16_CorrectClamped ==
    (CorDone /\ cor_args.clp_en /\ FLeq(CorClpNeg, CorClpPos))
    => /\ FWithin(CorFinal, CorClpNeg, CorClpPos)
       /\ FLess(CorClpPos, cor_after_offset) => CorFinal = CorClpPos
       /\ FLess(cor_after_offset, CorClpNeg) => CorFinal = CorClpNeg

\* a call that clamped a value above clp_pos, with clp_pos below the
\* format's maximum
C16_Witness ==
    /\ CorDone
    /\ cor_args.clp_en
    /\ FLess(CorClpNeg, CorClpPos)
    /\ FLess(CorClpPos, cor_after_offset)
    /\ FLess(CorClpPos, Flt(1023, -4))
    /\ CorFinal = CorClpPos

\* largest and smallest value of the signed 7.4 format
CorMax == Flt(1023, -4)

CorMin == Flt(-1024, -4)

\* C17: with clamping disabled, an offset-applied value above the maximum
\* of signed 7.4 gives the final hex 3FF and one below the minimum gives
\* 400; a value inside the range gives that value truncated to 4 fraction
\* bits.
C17_CorrectSaturates ==
    (CorDone /\ ~cor_args.clp_en)
    => /\ FLess(CorMax, cor_after_offset) => cor_ret[2] = <<"3", "F", "F">>
       /\ FLess(cor_after_offset, CorMin) => cor_ret[2] = <<"4", "0", "0">>
       /\ FWithin(cor_after_offset, CorMin, CorMax)
          => CorFinal = float_to_signed_fixed(cor_after_offset, 28, 4)

\* a call without clamping whose offset-applied value is below the minimum
C17_Witness ==
    /\ CorDone
    /\ ~cor_args.clp_en
    /\ FLess(cor_after_offset, CorMin)
    /\ cor_ret[2] = <<"4", "0", "0">>

\* ------------------------------------------------------------------------
\* Droop: inputs, action, specification
\* ------------------------------------------------------------------------
MaxLogN == 2         \* the filter window n is 2^j for j in 0..MaxLogN
MaxDroopCalls == 3   \* main processes at most MaxDroopCalls data items

\* <<hex_k, hex_r1, hex_r2, hex_th>>: k = 0.5, r = 1.5, th = 0x100;
\* k = 4095/4096, r = 65/64, th = 0x800; k = 0.75, r1 = 1, r2 = 2;
\* k = 2^-12, r = 511/64, th = 1; and th at both ends of the range
DroopParams ==
    {<<<<"8", "0", "0">>, <<"0", "6", "0">>, <<"0", "6", "0">>, <<"1", "0", "0">>>>,
     <<<<"F", "F", "F">>, <<"0", "4", "1">>, <<"0", "4", "1">>, <<"8", "0", "0">>>>,
     <<<<"C", "0", "0">>, <<"0", "4", "0">>, <<"0", "8", "0">>, <<"1", "0", "0">>>>,
     <<<<"0", "0", "1">>, <<"1", "F", "F">>, <<"1", "F", "F">>, <<"0", "0", "1">>>>,
     <<<<"8", "0", "0">>, <<"0", "6", "0">>, <<"0", "6", "0">>, <<"0", "0", "0">>>>,
     <<<<"8", "0", "0">>, <<"0", "6", "0">>, <<"0", "6", "0">>, <<"F", "F", "F">>>>}

DroopWindows == {Pow2(j) : j \in 0..MaxLogN}

\* filter off or on with a window; clamp off or on with [0.5, 40]
DroopModes ==
    {<<f[1], f[2], c[1], c[2], c[3]>> :
        f \in {<<FALSE, 1>>} \cup {<<TRUE, n>> : n \in DroopWindows},
        c \in {<<FALSE, <<>>, <<>>>>,
               <<TRUE, <<"2", "8", "0">>, <<"0", "0", "8">>>>}}

DroopData ==
    {<<"0", "0", "0">>, <<"0", "0", "1">>, <<"0", "F", "F">>, <<"1", "0", "0">>,
     <<"1", "0", "1">>, <<"8", "0", "0">>, <<"F", "F", "F">>}

InitDroop ==
    /\ CodecIdle
    /\ NcpIdle
    /\ PiIdle
    /\ CorIdle
    /\ AuxIdle
    /\ \E p \in DroopParams, mode \in DroopModes :
           DroopStarted(DroopConfig(p[1], p[2], p[3], p[4], mode))

\* one data item of main: current_params, process_droop, filter state kept
ProcessDroopItem ==
    /\ d_calls < MaxDroopCalls
    /\ \E hex_data \in DroopData :
        \E r \in {process_droop(hex_data, d_config, d_config.enable_clamp,
                                 d_config.clp_pos, d_config.clp_neg)} :
            /\ d_config' = KeepLastOut(d_config, r.params)
            /\ d_data' = hex_data
            /\ d_raw' = r.droop_result
            /\ d_ret' = r.ret
            /\ d_prev' = [hex_data |-> d_data, raw |-> d_raw, ret |-> d_ret]
            /\ d_calls' = d_calls + 1
    /\ UNCHANGED <<codec_vars, ncp_vars, pi_vars, cor_vars, aux_vars>>

NextDroop == ProcessDroopItem

SpecDroop == InitDroop /\ [][NextDroop]_vars

\* ------------------------------------------------------------------------
\* Droop: properties
\* ------------------------------------------------------------------------
DroopK == droop_hex_to_unsigned_fixed(d_config.hex_k, 0, 12)

DroopR1 == droop_hex_to_unsigned_fixed(d_config.hex_r1, 6, 6)

DroopR2 == droop_hex_to_unsigned_fixed(d_config.hex_r2, 6, 6)

DroopTh == droop_hex_to_unsigned_fixed(d_config.hex_th, 12, 0)

\* the data of the last call and of the call before
DroopDat == droop_hex_to_unsigned_fixed(d_data, 12, 0)

DroopPrevDat == droop_hex_to_unsigned_fixed(d_prev.hex_data, 12, 0)

\* C18: for r1 = r2 the raw droop value and its u18.12 encoding are
\* non-decreasing in data, also across data = th, and at data = th the
\* low-segment and the high-segment formula both give th * r1 * k.
C18_DroopMonotone ==
    (d_calls >= 1 /\ DroopR1 = DroopR2)
    => /\ (d_calls >= 2 /\ FLeq(DroopPrevDat, DroopDat))
          => /\ FLeq(d_prev.raw, d_raw)
             /\ HexToInt(d_prev.ret[1]) <= HexToInt(d_ret[1])
       /\ DroopDat = DroopTh
          => /\ d_raw = FMul(FMul(DroopTh, DroopR1), DroopK)
             /\ DroopLow(DroopDat, DroopK, DroopR1) = d_raw
             /\ DroopHigh(DroopDat, DroopK, DroopR1, DroopR2, DroopTh) = d_raw

\* a step from below the breakpoint onto it, with a larger result
C18_Witness ==
    /\ d_calls >= 2
    /\ DroopR1 = DroopR2
    /\ FLess(DroopPrevDat, DroopTh)
    /\ DroopDat = DroopTh
    /\ FLess(d_prev.raw, d_raw)
    /\ HexToInt(d_prev.ret[1]) < HexToInt(d_ret[1])

\* C19: with filtering enabled, after each call the stored last_out is the
\* value of the filtered hex that call returned, and that hex is the u18.12
\* encoding of raw/n + last_out*(n-1)/n computed from the last_out the
\* previous call stored; with filtering disabled last_out is not modified
\* and the filtered hex is the raw droop hex.
C19_FilterState ==
    [][(d_calls' = d_calls + 1)
       => IF d_config.enable_filter
          THEN /\ d_config'.last_out
                  = droop_hex_to_unsigned_fixed(d_ret'[2], 18, 12)
               /\ d_ret'[2]
                  = droop_float_to_unsigned_fixed_hex(
                        FAdd(FDivPow2(droop_hex_to_unsigned_fixed(d_ret'[1], 18, 12),
                                      d_config.n),
                             FDivPow2(FMul(d_config.last_out,
                                           Flt(d_config.n - 1, 0)),
                                      d_config.n)),
                        18, 12)
          ELSE /\ d_config'.last_out = d_config.last_out
               /\ d_ret'[2] = d_ret'[1]]_vars

\* a filtered call whose result depends on the state the call before stored
C19_Witness ==
    /\ d_calls >= 2
    /\ d_config.enable_filter
    /\ d_config.n >= 2
    /\ d_config.last_out # FZero
    /\ d_config.last_out = droop_hex_to_unsigned_fixed(d_ret[2], 18, 12)
    /\ d_ret[2] # d_ret[1]
    /\ d_prev.ret[2] # d_ret[2]
    /\ HexToInt(d_prev.ret[2]) # 0

\* the clamped output of the last call, decoded as u6.4
DroopAdj == droop_hex_to_unsigned_fixed(d_ret[3], 6, 4)

\* C20: with clamping enabled and clp_neg <= clp_pos the clamped output hex
\* decodes (u6.4) to a value in [clp_neg, clp_pos] and is never negative.
C20_DroopClamped ==
    (d_calls >= 1 /\ d_config.enable_clamp
        /\ FLeq(d_config.clp_neg, d_config.clp_pos))
    => /\ FWithin(DroopAdj, d_config.clp_neg, d_config.clp_pos)
       /\ FLeq(FZero, DroopAdj)

\* a filtered value above clp_pos, clamped to it, after a filtered value
\* below clp_neg
C20_Witness ==
    /\ d_calls >= 2
    /\ d_config.enable_clamp
    /\ FLess(d_config.clp_neg, d_config.clp_pos)
    /\ FLess(d_config.clp_pos, droop_hex_to_unsigned_fixed(d_ret[2], 18, 12))
    /\ DroopAdj = d_config.clp_pos
    /\ FLess(droop_hex_to_unsigned_fixed(d_prev.ret[2], 18, 12), d_config.clp_neg)
    /\ droop_hex_to_unsigned_fixed(d_prev.ret[3], 6, 4) = d_config.clp_neg

\* ------------------------------------------------------------------------
\* droop.py: the repeat test of main, one data fed again and again
\* ------------------------------------------------------------------------
\* one item of the repeat test: the first call takes any data, every later
\* call the same data (calls are counted up to MaxDroopCalls)
ProcessDroopRepeat ==
    /\ \E hex_data \in DroopData :
        \E r \in {process_droop(hex_data, d_config, d_config.enable_clamp,
                                 d_config.clp_pos, d_config.clp_neg)} :
            /\ d_calls = 0 \/ hex_data = d_data
            /\ d_config' = KeepLastOut(d_config, r.params)
            /\ d_data' = hex_data
            /\ d_raw' = r.droop_result
            /\ d_ret' = r.ret
            /\ d_prev' = [hex_data |-> d_data, raw |-> d_raw, ret |-> d_ret]
            /\ d_calls' = Min(d_calls + 1, MaxDroopCalls)
    /\ UNCHANGED <<codec_vars, ncp_vars, pi_vars, cor_vars, aux_vars>>

NextDroopRepeat == ProcessDroopRepeat

SpecDroopRepeat == InitDroop /\ [][NextDroopRepeat]_vars

\* the quantized raw droop value and the filtered output of the last call,
\* as counts of 2^-12
RawDroopCode == HexToInt(d_ret[1])

FilteredCode == HexToInt(d_ret[2])

\* the filtered output does not fall from one call to the next
DroopStepRises ==
    d_config.enable_filter =>
        HexToInt(d_ret'[2]) >= (IF d_calls = 0 THEN 0 ELSE FilteredCode)

\* the filtered output is at most the quantized raw value, and is that value
\* when the window is 1
DroopStepBelowRaw ==
    (d_config.enable_filter /\ d_calls > 0) =>
        /\ FilteredCode <= RawDroopCode
        /\ d_config.n = 1 => d_ret[2] = d_ret[1]

\* C28: with filtering on, window n >= 1, last_out initially 0 and the same
\* data on every call, the filtered output is non-decreasing from call to
\* call and never above the quantized raw droop value; for n = 1 it equals
\* the raw value on every call
C28_StepResponse == [][DroopStepRises]_vars /\ []DroopStepBelowRaw

\* C28 happens: the third call or a later one of a run with window 4 has
\* raised the output, which is still below the raw value
C28_Witness ==
    /\ d_config.enable_filter
    /\ d_config.n = 4
    /\ d_calls = MaxDroopCalls
    /\ FilteredCode < RawDroopCode
    /\ FilteredCode > HexToInt(d_prev.ret[2])
    /\ HexToInt(d_prev.ret[2]) > 0

\* ------------------------------------------------------------------------
\* adj_current_share_Rev0_0.py: the processing core (specification)
\* ------------------------------------------------------------------------
MaxCoreCalls == 4

\* thresholds as configure stores them (_get_s19 keeps value & 0x7FFFF) and
\* the defaults of CurrentShareAdjConfig
CoreThresholds == {<<100, 10>>, <<524287, 524288>>}

\* trigger counts (u5.0)
CoreThNum == {<<2, 2>>, <<1, 3>>}

\* the configurations: adj_k1 is asked for in normal mode only
CoreConfigs ==
    {[mode |-> md, enable_n_continuous |-> en, th_pos |-> th[1],
      th_neg |-> th[2], th_num_pos |-> tn[1], th_num_neg |-> tn[2],
      adj_k1 |-> k] :
        md \in {"n", "t"}, en \in BOOLEAN, th \in CoreThresholds,
        tn \in CoreThNum, k \in {40, 64}}
    \ {c \in [mode : {"t"}, enable_n_continuous : BOOLEAN,
              th_pos : {100, 524287}, th_neg : {10, 524288},
              th_num_pos : {1, 2}, th_num_neg : {2, 3}, adj_k1 : {64}] : TRUE}

\* test errors in volts: 0.5, 0, 0.0625, -0.5
CoreTestErrors == {Flt(1, -1), FZero, Flt(1, -4), Flt(-1, -1)}

\* data and share of normal mode
CoreSamples == {<<0, 2048>>, <<2048, 0>>, <<4095, 4095>>, <<4160, 64>>}

\* the arguments of process in the two modes of main
CoreInputs(config) ==
    IF config.mode = "n"
    THEN {[data |-> s[1], share |-> s[2], test_error |-> None] :
              s \in CoreSamples}
    ELSE {[data |-> 0, share |-> 0, test_error |-> t] : t \in CoreTestErrors}

InitCore ==
    /\ CodecIdle
    /\ NcpIdle
    /\ PiIdle
    /\ CorIdle
    /\ DroopIdle
    /\ AnalogIdle
    /\ AdjIdle
    /\ \E config \in CoreConfigs : CoreConstructed(config)

\* the lengths (capped at 31) of the runs of positive and of negative
\* exceedances that end with the sample of this call
RunAfter(config, run, error) ==
    LET pos == FLeq(Flt(config.th_pos, 0), error)
        neg == ~pos /\ FLeq(error, Flt(config.th_neg, 0))
    IN  [pos |-> IF pos THEN Min(run.pos + 1, 31) ELSE 0,
         neg |-> IF neg THEN Min(run.neg + 1, 31) ELSE 0,
         calls |-> run.calls + 1]

\* one call of process from the run loop of main
CallCoreProcess ==
    /\ r_run.calls < MaxCoreCalls
    /\ \E a \in CoreInputs(r_config) :
        \E r \in {core_process(r_config, cnt_pos, cnt_neg, a.data, a.share,
                               a.test_error)} :
            /\ cnt_pos' = r.cnt_pos
            /\ cnt_neg' = r.cnt_neg
            /\ last_output' = r.last_output
            /\ r_error' = r.error
            /\ r_ret' = r.ret
            /\ r_run' = RunAfter(r_config, r_run, r.error)
    /\ UNCHANGED <<r_config, codec_vars, ncp_vars, pi_vars, cor_vars,
                   droop_vars, analog_vars, adj_params>>

\* CurrentShareAdjCore.reset between two calls
CoreReset ==
    /\ r_run.calls > 0
    /\ cnt_pos' = 0
    /\ cnt_neg' = 0
    /\ last_output' = FZero
    /\ r_run' = [pos |-> 0, neg |-> 0, calls |-> r_run.calls]
    /\ UNCHANGED <<r_config, r_error, r_ret, codec_vars, ncp_vars, pi_vars,
                   cor_vars, droop_vars, analog_vars, adj_params>>

NextCore == CallCoreProcess \/ CoreReset

SpecCore == InitCore /\ [][NextCore]_vars

\* C29: with continuous detection enabled, cnt_pos is the length (capped at
\* 31) of the current uninterrupted run of positive exceedances and cnt_neg
\* that of negative ones, and the interrupt flag is raised only by a sample
\* that completes a run of at least th_num_pos (th_num_neg) exceedances of
\* its sign
C29_ConsecutiveRuns ==
    (r_config.enable_n_continuous /\ r_ret # <<>>) =>
        /\ cnt_pos = r_run.pos
        /\ cnt_neg = r_run.neg
        /\ r_ret[2] => \/ r_run.pos > 0 /\ r_run.pos >= r_config.th_num_pos
                       \/ r_run.neg > 0 /\ r_run.neg >= r_config.th_num_neg

\* ------------------------------------------------------------------------
\* The truncating unsigned encoders of the three files (specification)
\* ------------------------------------------------------------------------
InitEncoders ==
    /\ NcpIdle
    /\ CtlIdle
    /\ \E fmt \in Formats : c_int_bits = fmt[1] /\ c_frac_bits = fmt[2]
    /\ c_value \in Values
    /\ c_hex = NoHex
    /\ c_enc = "none"
    /\ c_dec = "none"
    /\ c_result = FZero

CallDroopFloatToUnsignedFixedHex ==
    /\ CanEncode
    /\ c_hex' = droop_float_to_unsigned_fixed_hex(c_value, c_int_bits, c_frac_bits)
    /\ c_enc' = "droop_unsigned_hex"
    /\ UNCHANGED <<c_value, c_int_bits, c_frac_bits, c_dec, c_result, ncp_vars, ctl_vars>>

CallAnalogFloatToUnsignedFixedHex ==
    /\ CanEncode
    /\ c_hex' = analog_float_to_unsigned_fixed_hex(c_value, c_int_bits, c_frac_bits)
    /\ c_enc' = "analog_unsigned_hex"
    /\ UNCHANGED <<c_value, c_int_bits, c_frac_bits, c_dec, c_result, ncp_vars, ctl_vars>>

CallFlotToUnsignedFixed ==
    /\ CanEncode
    /\ c_result' = flot_to_unsigned_fixed(c_value, c_int_bits, c_frac_bits)
    /\ c_enc' = "droop_unsigned"
    /\ UNCHANGED <<c_value, c_int_bits, c_frac_bits, c_dec, c_hex, ncp_vars, ctl_vars>>

CallAnalogFloatToUnsignedFixed ==
    /\ CanEncode
    /\ c_result' = analog_float_to_unsigned_fixed(c_value, c_int_bits, c_frac_bits)
    /\ c_enc' = "analog_unsigned"
    /\ UNCHANGED <<c_value, c_int_bits, c_frac_bits, c_dec, c_hex, ncp_vars, ctl_vars>>

NextEncoders ==
    \/ CallFloatToUnsignedFixedHex
    \/ CallFloatToUnsignedFixed
    \/ CallDroopFloatToUnsignedFixedHex
    \/ CallAnalogFloatToUnsignedFixedHex
    \/ CallFlotToUnsignedFixed
    \/ CallAnalogFloatToUnsignedFixed

SpecEncoders == InitEncoders /\ [][NextEncoders]_vars

\* C30: for every value and every format, the hex encoders of droop.py and
\* analog_current_share.py (int truncation) return the string that
\* float_to_unsigned_fixed_hex of adj_current_share.py (math.floor) returns,
\* and the value-returning variants return the same number
C30_EncodersAgree ==
    /\ c_enc \in {"droop_unsigned_hex", "analog_unsigned_hex"} =>
           c_hex = float_to_unsigned_fixed_hex(c_value, c_int_bits, c_frac_bits)
    /\ c_enc \in {"droop_unsigned", "analog_unsigned"} =>
           c_result = float_to_unsigned_fixed(c_value, c_int_bits, c_frac_bits)

\* C30 happens: droop.py has encoded a negative value whose scaled value
\* math.floor and int take to different integers
C30_Witness ==
    /\ c_enc = "droop_unsigned_hex"
    /\ c_value.m < 0
    /\ ~ScaleOverflows(c_value, c_frac_bits)
    /\ MathFloor(Scale(c_value, c_frac_bits), c_int_bits + c_frac_bits)
           # PyInt(Scale(c_value, c_frac_bits), c_int_bits + c_frac_bits)
    /\ c_hex = FormatHex(0, (c_int_bits + c_frac_bits + 3) \div 4)

\* ------------------------------------------------------------------------
\* analog_current_share.py: the PWM split (specification)
\* ------------------------------------------------------------------------
\* data (u12.0): 0, 1, 16, 160, 256, 1024, 2048 with every trim
AnalogSmallData ==
    {<<"0", "0", "0">>, <<"0", "0", "1">>, <<"0", "1", "0">>, <<"0", "A", "0">>,
     <<"1", "0", "0">>, <<"4", "0", "0">>, <<"8", "0", "0">>}

\* data whose mantissa is long: 819, 2047, 4095
AnalogLongData == {<<"3", "3", "3">>, <<"7", "F", "F">>, <<"F", "F", "F">>}

\* trim (u1.12): 0, 1/16, 1/2, 5/8, 1, 3/2 with every data
AnalogSmallTrim ==
    {<<"0", "0", "0", "0">>, <<"0", "1", "0", "0">>, <<"0", "8", "0", "0">>,
     <<"0", "A", "0", "0">>, <<"1", "0", "0", "0">>, <<"1", "8", "0", "0">>}

\* trim whose mantissa is long: 0xCCD, 0xFFF, 0x1FFF
AnalogLongTrim ==
    {<<"0", "C", "C", "D">>, <<"0", "F", "F", "F">>, <<"1", "F", "F", "F">>}

\* the pairs <<data, trim>> of the calls
AnalogInputs ==
    ((AnalogSmallData \cup AnalogLongData) \X AnalogSmallTrim)
    \cup (AnalogSmallData \X AnalogLongTrim)

AdcBits == 8..12

PrdSelectors == 0..3

InitAnalog ==
    /\ CodecIdle
    /\ NcpIdle
    /\ PiIdle
    /\ CorIdle
    /\ DroopIdle
    /\ CoreIdle
    /\ AdjIdle
    /\ \E dt \in AnalogInputs, adc \in AdcBits, s \in PrdSelectors :
           AnalogPending([hex_data |-> dt[1], hex_trim |-> dt[2],
                          int_adc |-> adc, int_prd_pwm |-> s])

CallAnalogCurrentShareAlgorithm ==
    /\ a_ret = <<>>
    /\ a_ret' = analog_current_share_algorithm(a_args.hex_data, a_args.hex_trim,
                                               a_args.int_adc, a_args.int_prd_pwm)
    /\ UNCHANGED <<a_args, codec_vars, ncp_vars, pi_vars, cor_vars, droop_vars,
                   core_vars, adj_params>>

NextAnalog == CallAnalogCurrentShareAlgorithm

SpecAnalog == InitAnalog /\ [][NextAnalog]_vars

\* ------------------------------------------------------------------------
\* PWM split: properties (checked under SpecAnalog)
\* ------------------------------------------------------------------------
AnalogDone == a_ret # <<>>

\* the quantized raw duty as a count of 1/4096 (the u13.12 code returned)
RawDutyCode == HexToInt(a_ret[1])

\* the clamped duty as a count of 1/4096 (the u0.12 code returned)
ClampedDutyCode == HexToInt(a_ret[2])

\* C21: for data in 0..0xFFF, trim in 0..0x1FFF, adc_bits in 8..12 and a
\* period selector s in 0..3, pwm_high + pwm_low is the period (s+1)*100
\* and both lie in 0..period
C21_PeriodSplit ==
    AnalogDone =>
        LET period == (a_args.int_prd_pwm + 1) * 100
            pwm_high == a_ret[3]
            pwm_low == a_ret[4]
        IN  /\ pwm_high + pwm_low = period
            /\ 0 <= pwm_high /\ pwm_high <= period
            /\ 0 <= pwm_low /\ pwm_low <= period

\* C21 happens: data=0xFFF, trim=1.5, adc_bits=8, selector 3 splits 400
\* into pwm_high = 400 and pwm_low = 0
C21_Witness ==
    /\ AnalogDone
    /\ a_args.hex_data = <<"F", "F", "F">>
    /\ a_args.int_adc = 8
    /\ a_args.int_prd_pwm = 3
    /\ a_ret[3] = 400
    /\ a_ret[4] = 0

\* C22: the clamped duty is the quantized raw duty when that is at most
\* 0xFFF/4096 and is 0xFFF when it is larger, never its low 12 bits
C22_DutyClamp ==
    AnalogDone =>
        /\ Len(a_ret[2]) = 3
        /\ RawDutyCode <= 4095 => ClampedDutyCode = RawDutyCode
        /\ RawDutyCode > 4095 => ClampedDutyCode = 4095

\* C22 happens: a raw duty of 1.0 or more whose low 12 bits are not all ones
C22_Witness ==
    /\ AnalogDone
    /\ RawDutyCode >= 4096
    /\ RawDutyCode % 4096 # 4095
    /\ ClampedDutyCode = 4095

\* C26: with th_num_neg >= 1, after any sequence of process_data calls at
\* most one of the two counters is non-zero, count_pos > 0 only while the
\* tracking state is positive and count_neg > 0 only while it is negative
C26_CounterExclusive ==
    th_num_neg >= 1 =>
        /\ current_pos = 0 \/ current_neg = 0
        /\ n_ret[1] = 0 \/ n_ret[2] = 0
        /\ current_pos > 0 => state
        /\ current_neg > 0 => ~state

\* C26 happens: the negative side is counting after a positive latch, and
\* the positive counter is back at zero
C26_Witness ==
    /\ th_num_neg >= 1
    /\ current_neg >= 2
    /\ current_pos = 0
    /\ ~state
    /\ state_out
    /\ FLess(th_pos, data)

\* ------------------------------------------------------------------------
\* Hysteresis detector: construction and malformed samples
\* ------------------------------------------------------------------------
\* trigger counts as typed: 2, and 0x3F, which does not fit 5 bits
ThNumTyped == {<<"0", "2">>, <<"3", "F">>}

\* a detector constructed from any two hex digits per count
InitNcpTyped ==
    /\ CodecIdle
    /\ CtlIdle
    /\ \E th \in ThPairs, np \in ThNumTyped, nn \in ThNumTyped :
           NContinuousProcessorInit(th[1], th[2], np, nn)

\* a process_data call on any string
ProcessTypedData ==
    /\ \E h \in Samples \cup OddSamples : process_data(h)
    /\ UNCHANGED <<codec_vars, ctl_vars>>

NextNcpTyped == ProcessTypedData

SpecNcpTyped == InitNcpTyped /\ [][NextNcpTyped]_vars

\* the hex strings handed to __init__ fit their declared widths
ConfigInRange(args) ==
    /\ HexToInt(args[1]) < Pow2(20)
    /\ HexToInt(args[2]) < Pow2(20)
    /\ HexToInt(args[3]) < Pow2(5)
    /\ HexToInt(args[4]) < Pow2(5)

\* C23: construction with a threshold or count hex outside its declared
\* width fails and yields no processor, so every processor there is was
\* constructed from in-range values; no process_data call raises a
\* configuration error
C23_ConfigErrorAtConstruction ==
    /\ ConfigInRange(n_args)
    /\ n_exc[1] # "ConfigurationError"

\* C24: a process_data call whose sample is not base-16 digits fails with
\* a format error and leaves the detector's state as it was
C24_MalformedRejected ==
    [][\A h \in OddSamples :
          (process_data(h) /\ UNCHANGED <<codec_vars, ctl_vars>>) =>
              /\ n_exc' = <<"ValueError", h>>
              /\ UNCHANGED <<current_pos, current_neg, data, state, state_out,
                             n_ret>>]_vars

\* ------------------------------------------------------------------------
\* adj_current_share.py: adj_process, the pipeline (specification)
\* ------------------------------------------------------------------------
MaxAdjCalls == 3

\* errors (s20.6): 0, 30, 150 + 1/64, 2^18, 3 * 2^17, -30, -2^18, -2^19
AdjErrors ==
    {FormatHex(c, 7) : c \in {0, 1920, 9601, 16777216, 25165824}}
    \cup {FormatHex(Pow2(26) - c, 7) : c \in {1920, 16777216}}
    \cup {FormatHex(Pow2(25), 7)}

\* the switches of config
AdjSwitches == {[enable_count |-> c, enable_pi |-> q] : c, q \in BOOLEAN}

\* k2 (u6.6) and the output clamp of params: k2 = 1/2 and 1, the clamp
\* [-16, 16] or disabled
AdjCorrect ==
    {[pi_result_hex |-> <<"0", "0", "0", "0", "0", "0", "0", "0">>,
      k2_hex |-> k, offset_hex |-> <<"0", "0", "0">>,
      clp_pos_hex |-> c[1], clp_neg_hex |-> c[2], clp_en |-> c[3]] :
        k \in {<<"0", "2", "0">>, <<"0", "4", "0">>},
        c \in {<<<<"1", "0", "0">>, <<"7", "0", "0">>, TRUE>>,
               <<<<>>, <<>>, FALSE>>}}

InitAdj ==
    /\ CodecIdle
    /\ NcpIdle
    /\ DroopIdle
    /\ AnalogIdle
    /\ CoreIdle
    /\ adj_params \in AdjSwitches
    /\ \E cfg \in PiConfigs : PiConstructed(cfg)
    /\ \E a \in AdjCorrect : CorPending(a)

\* hex_error_after_count of adj_process: what the detector returned, or
\* the error itself
HexErrorAfterCount(hex_error) ==
    IF adj_params.enable_count THEN n_ret'[4] ELSE hex_error

\* the PI stage of adj_process: pi_process, or the error as s21.10
AdjPiStage(hex_error_after_count) ==
    IF adj_params.enable_pi
    THEN \E r \in {pi_process(pi_self, hex_error_after_count)} :
            /\ pi_self' = r.self
            /\ pi_i' = r.i
            /\ pi_ret' = r.ret
    ELSE /\ pi_ret' = <<<<"0">>, <<"0">>,
                        float_to_signed_fixed_hex(
                            hex_to_signed_fixed(hex_error_after_count, 20, 6),
                            21, 10)>>
         /\ UNCHANGED <<pi_self, pi_i>>

\* one adj_process call of main's loop
AdjProcess ==
    /\ pi_calls < MaxAdjCalls
    /\ \E hex_error \in AdjErrors :
        /\ IF adj_params.enable_count THEN process_data(hex_error)
           ELSE UNCHANGED ncp_vars
        /\ AdjPiStage(HexErrorAfterCount(hex_error))
        /\ pi_error' = HexErrorAfterCount(hex_error)
        /\ pi_calls' = pi_calls + 1
        /\ cor_args' = [cor_args EXCEPT !.pi_result_hex = pi_ret'[3]]
        /\ \E r \in {correct_algorithm(pi_ret'[3], cor_args.k2_hex,
                                        cor_args.offset_hex, cor_args.clp_pos_hex,
                                        cor_args.clp_neg_hex, cor_args.clp_en)} :
               /\ cor_after_offset' = r.after_offset
               /\ cor_ret' = r.ret
    /\ UNCHANGED <<codec_vars, droop_vars, analog_vars, core_vars, adj_params>>

NextAdj == AdjProcess

SpecAdj == InitAdj /\ [][NextAdj]_vars

\* ------------------------------------------------------------------------
\* adj_process: properties (checked under SpecAdj)
\* ------------------------------------------------------------------------
\* the PI sum pi_process encoded: its sum hex read as s21.10
PiSumEncoded == hex_to_signed_fixed(pi_ret[3], 21, 10)

\* the PI sum correct_algorithm decodes from the same hex
PiSumDecoded == hex_to_signed_fixed(cor_args.pi_result_hex, 20, 10)

\* C25: with PI enabled, the value correct_algorithm decodes from the PI sum
\* hex is the value pi_process encoded into it, for every reachable sum
C25_NoWrapBetweenStages ==
    (adj_params.enable_pi /\ pi_calls > 0) => PiSumDecoded = PiSumEncoded

====
